---- MODULE Spec2Model ----
(***************************************************************************)
(* A model of the GBArs ARM7TDMI core: PSR, condition evaluator, memory    *)
(* map, bus, ARM decoder, ARM executor, register banks, exceptions and     *)
(* the three-stage pipeline.                                               *)
(*                                                                         *)
(* A 32-bit word (i32 or u32 in the source) is modelled by the integer in  *)
(* -2^31 .. 2^31-1 that has the same bit pattern (its two's-complement     *)
(* value).  A cast between i32 and u32 is therefore the identity on the    *)
(* representation, and every operator below that depends on signedness     *)
(* says so.  Arithmetic is carried out on 16-bit halves so that no         *)
(* intermediate value leaves the 32-bit range.                             *)
(***************************************************************************)
EXTENDS Integers, Sequences, FiniteSets, TLC

VARIABLES cpu, ret, obs, nops, fin, fout, overflow_checks

vars == << cpu, ret, obs, nops, fin, fout, overflow_checks >>

----------------------------------------------------------------------------
(* 32-bit word primitives (Rust's integer operations).                     *)

Bit(x, i) == IF i = 31 THEN (IF x < 0 THEN 1 ELSE 0) ELSE (x \div (2^i)) % 2

Lo16(x) == x % 65536

Hi16(x) == (x \div 65536) % 65536

Mk32(hi, lo) == IF hi >= 32768 THEN (hi - 65536) * 65536 + lo ELSE hi * 65536 + lo

(* bits lo .. lo+n-1 of x as a number, n <= 16 *)
Bits(x, lo, n) == IF lo + n <= 31 THEN (x \div (2^lo)) % (2^n)
                  ELSE ((x \div (2^lo)) % (2^(31 - lo))) + Bit(x, 31) * (2^(31 - lo))

RECURSIVE SumBits(_, _, _)
SumBits(f, base, i) == IF i < 0 THEN 0 ELSE f[base + i] * (2^i) + SumBits(f, base, i - 1)

FromBits(f) == Mk32(SumBits(f, 16, 15), SumBits(f, 0, 15))

(* bitwise operations on 16-bit halves, bit by bit from the low end *)
RECURSIVE And16(_, _)
And16(a, b) ==
    IF a = 0 \/ b = 0 THEN 0 ELSE (a % 2) * (b % 2) + 2 * And16(a \div 2, b \div 2)

RECURSIVE Xor16(_, _)
Xor16(a, b) ==
    IF a = 0 THEN b ELSE IF b = 0 THEN a
    ELSE ((a + b) % 2) + 2 * Xor16(a \div 2, b \div 2)

And32(a, b) == Mk32(And16(Hi16(a), Hi16(b)), And16(Lo16(a), Lo16(b)))

Xor32(a, b) == Mk32(Xor16(Hi16(a), Hi16(b)), Xor16(Lo16(a), Lo16(b)))

(* a | b = (a ^ b) + (a & b), the two summands sharing no bit *)
Or32(a, b) ==
    Mk32(Xor16(Hi16(a), Hi16(b)) + And16(Hi16(a), Hi16(b)),
         Xor16(Lo16(a), Lo16(b)) + And16(Lo16(a), Lo16(b)))

Not32(a) == (-1) - a

AddC(a, b, cin) ==
    LET lo == Lo16(a) + Lo16(b) + cin
        hi == Hi16(a) + Hi16(b) + (lo \div 65536)
    IN  [v |-> Mk32(hi % 65536, lo % 65536), c |-> hi \div 65536]

wrapping_add(a, b) == AddC(a, b, 0).v

wrapping_sub(a, b) == AddC(a, Not32(b), 1).v

wrapping_neg(a) == wrapping_sub(0, a)

(* i32::overflowing_add / overflowing_sub: the wrapped value and whether   *)
(* the signed result left the i32 range.                                   *)
overflowing_add(a, b) ==
    LET r == wrapping_add(a, b)
    IN  << r, (a < 0) = (b < 0) /\ (r < 0) # (a < 0) >>

overflowing_sub(a, b) ==
    LET r == wrapping_sub(a, b)
    IN  << r, (a < 0) # (b < 0) /\ (r < 0) # (a < 0) >>

(* A u64 is four 16-bit limbs, least significant first.                    *)
as_u32_as_u64(a) == << Lo16(a), Hi16(a), 0, 0 >>

RECURSIVE LimbAdd(_, _, _, _)
LimbAdd(x, y, i, carry) ==
    IF i > 4 THEN << >>
    ELSE LET s == x[i] + y[i] + carry
         IN  << s % 65536 >> \o LimbAdd(x, y, i + 1, s \div 65536)

u64_wrapping_add(x, y) == LimbAdd(x, y, 1, 0)

u64_wrapping_sub(x, y) == LimbAdd(x, [i \in 1..4 |-> 65535 - y[i]], 1, 1)

(* bit 32 of a u64 *)
u64_bit32(x) == x[3] % 2

(* shifts by n in 0..31 (wrapping_shl / wrapping_shr / rotate_right)       *)
shl32(a, n) ==
    IF n = 0 THEN a ELSE FromBits([i \in 0..31 |-> IF i >= n THEN Bit(a, i - n) ELSE 0])

lsr32(a, n) ==
    IF n = 0 THEN a ELSE FromBits([i \in 0..31 |-> IF i + n <= 31 THEN Bit(a, i + n) ELSE 0])

(* floor division is the arithmetic shift *)
asr32(a, n) == IF n = 31 THEN (IF a < 0 THEN -1 ELSE 0) ELSE a \div (2^n)

rotate_right(a, n) ==
    IF n % 32 = 0 THEN a ELSE FromBits([i \in 0..31 |-> Bit(a, (i + n) % 32)])

----------------------------------------------------------------------------
(* Return values: Ok, a GbaError, or a panic (the process aborts).         *)

Ok == [err |-> "Ok", a |-> 0, w |-> 0]

Err(kind, a, w) == [err |-> kind, a |-> a, w |-> w]

Panic == [err |-> "Panic", a |-> 0, w |-> 0]

----------------------------------------------------------------------------
(* psr.rs: the Program Status Register.                                    *)

Modes == {"User", "FIQ", "IRQ", "Supervisor", "Abort", "Undefined", "System"}

(* `mode as u8 as usize` *)
ModeIndex(m) ==
    CASE m = "User" -> 0 [] m = "FIQ" -> 1 [] m = "IRQ" -> 2 [] m = "Supervisor" -> 3
      [] m = "Abort" -> 4 [] m = "Undefined" -> 5 [] m = "System" -> 6

as_bits(m) ==
    CASE m = "User" -> \b10000 [] m = "FIQ" -> \b10001 [] m = "IRQ" -> \b10010
      [] m = "Supervisor" -> \b10011 [] m = "Abort" -> \b10111
      [] m = "Undefined" -> \b11011 [] m = "System" -> \b11111

N_FLAG_BIT == 31
Z_FLAG_BIT == 30
C_FLAG_BIT == 29
V_FLAG_BIT == 28
IRQ_DISABLE_BIT == 7
FIQ_DISABLE_BIT == 6
STATE_BIT == 5

SetBit(x, i, b) ==
    IF Bit(x, i) = b THEN x
    ELSE IF i = 31 THEN (IF b = 1 THEN (x - 2147483647) - 1 ELSE (x + 2147483647) + 1)
    ELSE IF b = 1 THEN x + 2^i ELSE x - 2^i

(* top four bits of `top` over the low 28 bits given as a number *)
Compose4_28(top4, low28) ==
    IF top4 >= 8 THEN (top4 - 16) * (2^28) + low28 ELSE top4 * (2^28) + low28

RAW_DEFAULT == SetBit(SetBit(as_bits("Supervisor"), IRQ_DISABLE_BIT, 1), FIQ_DISABLE_BIT, 1)

PSR_default == RAW_DEFAULT

PSR_state(p) == IF Bit(p, STATE_BIT) = 0 THEN "ARM" ELSE "THUMB"

(* Mode, or "Panic" for a bit pattern outside the table *)
PSR_mode(p) ==
    LET b == p % 32
    IN  IF \E m \in Modes : as_bits(m) = b
        THEN CHOOSE m \in Modes : as_bits(m) = b
        ELSE "Panic"

set_state(p, s) == SetBit(p, STATE_BIT, IF s = "ARM" THEN 0 ELSE 1)

set_mode(p, m) == (p - (p % 32)) + as_bits(m)

disable_irq(p) == SetBit(p, IRQ_DISABLE_BIT, 1)

disable_fiq(p) == SetBit(p, FIQ_DISABLE_BIT, 1)

irq_disabled(p) == Bit(p, IRQ_DISABLE_BIT) = 1

fiq_disabled(p) == Bit(p, FIQ_DISABLE_BIT) = 1

PSR_N(p) == Bit(p, N_FLAG_BIT) = 1
PSR_Z(p) == Bit(p, Z_FLAG_BIT) = 1
PSR_C(p) == Bit(p, C_FLAG_BIT) = 1
PSR_V(p) == Bit(p, V_FLAG_BIT) = 1

B2I(b) == IF b THEN 1 ELSE 0

set_N(p, n) == SetBit(p, N_FLAG_BIT, B2I(n))
set_Z(p, n) == SetBit(p, Z_FLAG_BIT, B2I(n))
set_C(p, n) == SetBit(p, C_FLAG_BIT, B2I(n))
set_V(p, n) == SetBit(p, V_FLAG_BIT, B2I(n))

(* (x & NON_RESERVED_MASK) | (self & !NON_RESERVED_MASK), mask F00000FF    *)
override_non_reserved(p, x) ==
    Compose4_28(Bits(x, 28, 4), ((p % (2^28)) - (p % 256)) + (x % 256))

(* (x & FLAGS_MASK) | (self & !FLAGS_MASK), mask F0000000                  *)
override_flags(p, x) == Compose4_28(Bits(x, 28, 4), p % (2^28))

----------------------------------------------------------------------------
(* exception.rs                                                            *)

Exceptions == {"Reset", "UndefinedInstruction", "SoftwareInterrupt", "PrefetchAbort",
               "DataAbort", "AddressExceeds26Bit", "NormalInterrupt", "FastInterrupt"}

(* `self as u8` *)
ExceptionIndex(ex) ==
    CASE ex = "Reset" -> 0 [] ex = "UndefinedInstruction" -> 1
      [] ex = "SoftwareInterrupt" -> 2 [] ex = "PrefetchAbort" -> 3
      [] ex = "DataAbort" -> 4 [] ex = "AddressExceeds26Bit" -> 5
      [] ex = "NormalInterrupt" -> 6 [] ex = "FastInterrupt" -> 7

mode_on_entry_swapped(ex) ==
    CASE ex \in {"PrefetchAbort", "DataAbort"} -> "Abort"
      [] ex \in {"Reset", "SoftwareInterrupt"} -> "Supervisor"
      [] ex \in {"UndefinedInstruction", "AddressExceeds26Bit"} -> "Undefined"
      [] ex = "NormalInterrupt" -> "IRQ"
      [] ex = "FastInterrupt" -> "FIQ"

mode_on_entry(ex) ==
    CASE ex \in {"PrefetchAbort", "DataAbort"} -> "Abort"
      [] ex \in {"Reset", "SoftwareInterrupt", "AddressExceeds26Bit"} -> "Supervisor"
      [] ex = "UndefinedInstruction" -> "Undefined"
      [] ex = "NormalInterrupt" -> "IRQ"
      [] ex = "FastInterrupt" -> "FIQ"

disable_fiq_on_entry(ex) == (ex = "Reset") \/ (ex = "FastInterrupt")

vector_address(ex) == ExceptionIndex(ex) * 4

----------------------------------------------------------------------------
(* armcondition.rs                                                         *)

(* Err(ReservedArmConditionNV) or Ok with the boolean in .v               *)
check_hi_without_z(cond, cpsr) ==
    CASE cond = 0  -> [r |-> Ok, v |-> PSR_Z(cpsr)]
      [] cond = 1  -> [r |-> Ok, v |-> ~PSR_Z(cpsr)]
      [] cond = 2  -> [r |-> Ok, v |-> PSR_C(cpsr)]
      [] cond = 3  -> [r |-> Ok, v |-> ~PSR_C(cpsr)]
      [] cond = 4  -> [r |-> Ok, v |-> PSR_N(cpsr)]
      [] cond = 5  -> [r |-> Ok, v |-> ~PSR_N(cpsr)]
      [] cond = 6  -> [r |-> Ok, v |-> PSR_V(cpsr)]
      [] cond = 7  -> [r |-> Ok, v |-> ~PSR_V(cpsr)]
      [] cond = 8  -> [r |-> Ok, v |-> PSR_C(cpsr)]
      [] cond = 9  -> [r |-> Ok, v |-> ~PSR_C(cpsr)]
      [] cond = 10 -> [r |-> Ok, v |-> PSR_N(cpsr) = PSR_V(cpsr)]
      [] cond = 11 -> [r |-> Ok, v |-> PSR_N(cpsr) # PSR_V(cpsr)]
      [] cond = 12 -> [r |-> Ok, v |-> ~PSR_Z(cpsr) /\ (PSR_N(cpsr) = PSR_V(cpsr))]
      [] cond = 13 -> [r |-> Ok, v |-> PSR_Z(cpsr) \/ (PSR_N(cpsr) # PSR_V(cpsr))]
      [] cond = 14 -> [r |-> Ok, v |-> TRUE]
      [] cond = 15 -> [r |-> Err("ReservedArmConditionNV", 0, 0), v |-> FALSE]

check(cond, cpsr) ==
    CASE cond = 0  -> [r |-> Ok, v |-> PSR_Z(cpsr)]
      [] cond = 1  -> [r |-> Ok, v |-> ~PSR_Z(cpsr)]
      [] cond = 2  -> [r |-> Ok, v |-> PSR_C(cpsr)]
      [] cond = 3  -> [r |-> Ok, v |-> ~PSR_C(cpsr)]
      [] cond = 4  -> [r |-> Ok, v |-> PSR_N(cpsr)]
      [] cond = 5  -> [r |-> Ok, v |-> ~PSR_N(cpsr)]
      [] cond = 6  -> [r |-> Ok, v |-> PSR_V(cpsr)]
      [] cond = 7  -> [r |-> Ok, v |-> ~PSR_V(cpsr)]
      [] cond = 8  -> [r |-> Ok, v |-> PSR_C(cpsr) /\ ~PSR_Z(cpsr)]
      [] cond = 9  -> [r |-> Ok, v |-> ~PSR_C(cpsr) \/ PSR_Z(cpsr)]
      [] cond = 10 -> [r |-> Ok, v |-> PSR_N(cpsr) = PSR_V(cpsr)]
      [] cond = 11 -> [r |-> Ok, v |-> PSR_N(cpsr) # PSR_V(cpsr)]
      [] cond = 12 -> [r |-> Ok, v |-> ~PSR_Z(cpsr) /\ (PSR_N(cpsr) = PSR_V(cpsr))]
      [] cond = 13 -> [r |-> Ok, v |-> PSR_Z(cpsr) \/ (PSR_N(cpsr) # PSR_V(cpsr))]
      [] cond = 14 -> [r |-> Ok, v |-> TRUE]
      [] cond = 15 -> [r |-> Err("ReservedArmConditionNV", 0, 0), v |-> FALSE]

----------------------------------------------------------------------------
(* memory.rs: the address map and the backing stores.  A store is the      *)
(* function from the offsets of its non-zero bytes to those bytes; every   *)
(* other byte of the array is zero.                                        *)

BIOS_ROM_FIRST == \h00000000
BIOS_ROM_LAST == \h00003FFF
BIOS_ROM_LEN == (BIOS_ROM_LAST + 1) - BIOS_ROM_FIRST
WRAM_ON_BOARD_FIRST == \h02000000
WRAM_ON_BOARD_LAST == \h0203FFFF
WRAM_ON_CHIP_FIRST == \h03000000
WRAM_ON_CHIP_LAST == \h03007FFF
IO_REGISTERS_FIRST == \h04000000
IO_REGISTERS_LAST == \h040003FE
IO_REGISTERS_LEN == (IO_REGISTERS_LAST + 1) - IO_REGISTERS_FIRST
PALETTE_RAM_FIRST == \h05000000
PALETTE_RAM_LAST == \h050003FF
VRAM_FIRST == \h06000000
VRAM_LAST == \h06017FFF
OBJ_ATTRIBUTES_FIRST == \h07000000
OBJ_ATTRIBUTES_LAST == \h070003FF
GAME_PAK_WS0_ROM_FIRST == \h08000000
GAME_PAK_WS0_ROM_LAST == \h09FFFFFF
GAME_PAK_WS1_ROM_FIRST == \h0A000000
GAME_PAK_WS1_ROM_LAST == \h0BFFFFFF
GAME_PAK_WS2_ROM_FIRST == \h0C000000
GAME_PAK_WS2_ROM_LAST == \h0DFFFFFF
GAME_PAK_SRAM_FIRST == \h0E000000
GAME_PAK_SRAM_LAST == \h0E00FFFF
GAME_PAK_SRAM_LEN == (GAME_PAK_SRAM_LAST + 1) - GAME_PAK_SRAM_FIRST

PA(tag, p) == [tag |-> tag, p |-> p]

(* p is a u32: a negative representative is an address above 7FFFFFFF      *)
from_u32(p) ==
    IF p < 0 THEN PA("Invalid", p)
    ELSE IF BIOS_ROM_FIRST <= p /\ p <= BIOS_ROM_LAST THEN PA("BiosROM", p - BIOS_ROM_FIRST)
    ELSE IF WRAM_ON_BOARD_FIRST <= p /\ p <= WRAM_ON_BOARD_LAST
         THEN PA("OnBoardWRAM", p - WRAM_ON_BOARD_FIRST)
    ELSE IF WRAM_ON_CHIP_FIRST <= p /\ p <= WRAM_ON_CHIP_LAST
         THEN PA("OnChipWRAM", p - WRAM_ON_CHIP_FIRST)
    ELSE IF IO_REGISTERS_FIRST <= p /\ p <= IO_REGISTERS_LAST
         THEN PA("RegistersIO", p - IO_REGISTERS_FIRST)
    ELSE IF PALETTE_RAM_FIRST <= p /\ p <= PALETTE_RAM_LAST
         THEN PA("PaletteRAM", p - PALETTE_RAM_FIRST)
    ELSE IF VRAM_FIRST <= p /\ p <= VRAM_LAST THEN PA("VRAM", p - VRAM_FIRST)
    ELSE IF OBJ_ATTRIBUTES_FIRST <= p /\ p <= OBJ_ATTRIBUTES_LAST
         THEN PA("AttributesOBJ", p - OBJ_ATTRIBUTES_FIRST)
    ELSE IF GAME_PAK_WS0_ROM_FIRST <= p /\ p <= GAME_PAK_WS0_ROM_LAST
         THEN PA("GamePak0ROM", p - GAME_PAK_WS0_ROM_FIRST)
    ELSE IF GAME_PAK_WS1_ROM_FIRST <= p /\ p <= GAME_PAK_WS1_ROM_LAST
         THEN PA("GamePak1ROM", p - GAME_PAK_WS1_ROM_FIRST)
    ELSE IF GAME_PAK_WS2_ROM_FIRST <= p /\ p <= GAME_PAK_WS2_ROM_LAST
         THEN PA("GamePak2ROM", p - GAME_PAK_WS2_ROM_FIRST)
    ELSE IF GAME_PAK_SRAM_FIRST <= p /\ p <= GAME_PAK_SRAM_LAST
         THEN PA("GamePakSRAM", p - GAME_PAK_SRAM_FIRST)
    ELSE PA("Invalid", p)

(* store[i], the array's byte at index i < len *)
ByteAt(store, i) == IF i \in DOMAIN store THEN store[i] ELSE 0

PutByte(store, i, v) ==
    IF v = 0 THEN [j \in (DOMAIN store) \ {i} |-> store[j]]
    ELSE [j \in (DOMAIN store) \cup {i} |-> IF j = i THEN v ELSE store[j]]

(* RawBytes::bytes(offs) is the slice [offs..]; an access of n bytes to it *)
(* panics when the slice is shorter than n (or offs is beyond the array).  *)
SliceHolds(len, offs, n) == offs + n <= len

(* Rom8::read_byte *)
read_byte(store, len, offs) ==
    IF SliceHolds(len, offs, 1) THEN [r |-> Ok, v |-> ByteAt(store, offs)]
    ELSE [r |-> Panic, v |-> 0]

(* Ram8::write_byte *)
write_byte(store, len, offs, data) ==
    IF SliceHolds(len, offs, 1) THEN [r |-> Ok, s |-> PutByte(store, offs, data)]
    ELSE [r |-> Panic, s |-> store]

(* Rom16::read_halfword: LittleEndian::read_u16(bytes(offs & !1)) *)
read_halfword(store, len, offs) ==
    LET o == offs - (offs % 2)
    IN  IF SliceHolds(len, o, 2)
        THEN [r |-> Ok, v |-> ByteAt(store, o) + 256 * ByteAt(store, o + 1)]
        ELSE [r |-> Panic, v |-> 0]

(* Ram16::write_halfword *)
write_halfword(store, len, offs, data) ==
    LET o == offs - (offs % 2)
    IN  IF SliceHolds(len, o, 2)
        THEN [r |-> Ok, s |-> PutByte(PutByte(store, o, data % 256), o + 1, data \div 256)]
        ELSE [r |-> Panic, s |-> store]

LittleEndian_read_u32(store, o) ==
    Mk32(ByteAt(store, o + 2) + 256 * ByteAt(store, o + 3),
         ByteAt(store, o) + 256 * ByteAt(store, o + 1))

(* Rom32::read_word: `w.rotate_right(..)` computes a value that is dropped; *)
(* the function returns w as read.                                         *)
read_word(store, len, offs) ==
    LET o == offs - (offs % 4)
    IN  IF SliceHolds(len, o, 4)
        THEN [r |-> Ok, v |-> LittleEndian_read_u32(store, o)]
        ELSE [r |-> Panic, v |-> 0]

(* Ram32::write_word *)
write_word(store, len, offs, data) ==
    LET o == offs - (offs % 4)
        l == Lo16(data)
        h == Hi16(data)
    IN  IF SliceHolds(len, o, 4)
        THEN [r |-> Ok,
              s |-> PutByte(PutByte(PutByte(PutByte(store, o, l % 256), o + 1, l \div 256),
                                    o + 2, h % 256), o + 3, h \div 256)]
        ELSE [r |-> Panic, s |-> store]

----------------------------------------------------------------------------
(* bus.rs: a Bus is [bios_rom, ioregs, sram].  Loads return [r, v]; stores *)
(* return [r, bus].  `unimplemented!()` panics.                            *)

Unimplemented == {"OnBoardWRAM", "OnChipWRAM", "PaletteRAM", "VRAM", "AttributesOBJ",
                  "GamePak0ROM", "GamePak1ROM", "GamePak2ROM"}

load_word(bus, addr) ==
    LET at(pa) ==
          CASE pa.tag = "BiosROM" -> read_word(bus.bios_rom, BIOS_ROM_LEN, pa.p)
            [] pa.tag = "RegistersIO" -> read_word(bus.ioregs, IO_REGISTERS_LEN, pa.p)
            [] pa.tag = "GamePakSRAM" -> [r |-> Err("InvalidMemoryBusWidth", pa.p, 32), v |-> 0]
            [] pa.tag = "Invalid" -> [r |-> Err("InvalidPhysicalAddress", pa.p, 0), v |-> 0]
            [] pa.tag \in Unimplemented -> [r |-> Panic, v |-> 0]
    IN  at(from_u32(addr))

store_word(bus, addr, data) ==
    LET io(w) == [r |-> w.r, bus |-> [bus EXCEPT !.ioregs = w.s]]
        at(pa) ==
          CASE pa.tag = "BiosROM" -> [r |-> Err("InvalidRomAccess", pa.p, 0), bus |-> bus]
            [] pa.tag = "RegistersIO" -> io(write_word(bus.ioregs, IO_REGISTERS_LEN, pa.p, data))
            [] pa.tag = "GamePakSRAM" ->
                  [r |-> Err("InvalidMemoryBusWidth", pa.p, 32), bus |-> bus]
            [] pa.tag = "Invalid" -> [r |-> Err("InvalidPhysicalAddress", pa.p, 0), bus |-> bus]
            [] pa.tag \in Unimplemented -> [r |-> Panic, bus |-> bus]
    IN  at(from_u32(addr))

load_byte(bus, addr) ==
    LET at(pa) ==
          CASE pa.tag = "BiosROM" -> read_byte(bus.bios_rom, BIOS_ROM_LEN, pa.p)
            [] pa.tag = "RegistersIO" -> read_byte(bus.ioregs, IO_REGISTERS_LEN, pa.p)
            [] pa.tag = "GamePakSRAM" -> read_byte(bus.sram, GAME_PAK_SRAM_LEN, pa.p)
            [] pa.tag = "Invalid" -> [r |-> Err("InvalidPhysicalAddress", pa.p, 0), v |-> 0]
            [] pa.tag \in Unimplemented -> [r |-> Panic, v |-> 0]
    IN  at(from_u32(addr))

store_byte(bus, addr, data) ==
    LET byte == data % 256
        io(w) == [r |-> w.r, bus |-> [bus EXCEPT !.ioregs = w.s]]
        sram(w) == [r |-> w.r, bus |-> [bus EXCEPT !.sram = w.s]]
        at(pa) ==
          CASE pa.tag = "BiosROM" -> [r |-> Err("InvalidRomAccess", pa.p, 0), bus |-> bus]
            [] pa.tag = "RegistersIO" -> io(write_byte(bus.ioregs, IO_REGISTERS_LEN, pa.p, byte))
            [] pa.tag = "GamePakSRAM" -> sram(write_byte(bus.sram, GAME_PAK_SRAM_LEN, pa.p, byte))
            [] pa.tag = "Invalid" -> [r |-> Err("InvalidPhysicalAddress", pa.p, 0), bus |-> bus]
            [] pa.tag \in Unimplemented -> [r |-> Panic, bus |-> bus]
    IN  at(from_u32(addr))

load_halfword(bus, addr) ==
    LET at(pa) ==
          CASE pa.tag = "BiosROM" -> read_halfword(bus.bios_rom, BIOS_ROM_LEN, pa.p)
            [] pa.tag = "RegistersIO" -> read_halfword(bus.ioregs, IO_REGISTERS_LEN, pa.p)
            [] pa.tag = "GamePakSRAM" -> [r |-> Err("InvalidMemoryBusWidth", pa.p, 16), v |-> 0]
            [] pa.tag = "Invalid" -> [r |-> Err("InvalidPhysicalAddress", pa.p, 0), v |-> 0]
            [] pa.tag \in Unimplemented -> [r |-> Panic, v |-> 0]
    IN  at(from_u32(addr))

store_halfword(bus, addr, data) ==
    LET halfword == data % 65536
        io(w) == [r |-> w.r, bus |-> [bus EXCEPT !.ioregs = w.s]]
        at(pa) ==
          CASE pa.tag = "BiosROM" -> [r |-> Err("InvalidRomAccess", pa.p, 0), bus |-> bus]
            [] pa.tag = "RegistersIO" ->
                  io(write_halfword(bus.ioregs, IO_REGISTERS_LEN, pa.p, halfword))
            [] pa.tag = "GamePakSRAM" ->
                  [r |-> Err("InvalidMemoryBusWidth", pa.p, 16), bus |-> bus]
            [] pa.tag = "Invalid" -> [r |-> Err("InvalidPhysicalAddress", pa.p, 0), bus |-> bus]
            [] pa.tag \in Unimplemented -> [r |-> Panic, bus |-> bus]
    IN  at(from_u32(addr))

----------------------------------------------------------------------------
(* arminstruction/mod.rs: an ArmInstruction is [raw, op].                  *)

NOP_RAW == \h01A00000

nop == [raw |-> NOP_RAW, op |-> "DataProcessing"]

THUMB_NOP_RAW == \h46C0

thumb_nop == [raw |-> THUMB_NOP_RAW, op |-> "HiRegOpBx"]

MaskEq(raw, mask, val) == And32(raw, mask) = val

(* decode with the data-processing test tried before MRS and MSR.         *)
decode_data_processing_first(raw) ==
    LET as(op) == IF op = "Invalid" THEN [r |-> Err("InvalidArmInstruction", raw, 0), i |-> nop]
                  ELSE [r |-> Ok, i |-> [raw |-> raw, op |-> op]]
    IN  as(IF MaskEq(raw, \h0FFFFFF0, \h012FFF10) THEN "BX"
         ELSE IF MaskEq(raw, \h0E000000, \h0A000000) THEN "B_BL"
         ELSE IF MaskEq(raw, \h0E000010, \h06000010) THEN "Unknown"
         ELSE IF MaskEq(raw, \h0FB00FF0, \h01000090) THEN "SWP"
         ELSE IF MaskEq(raw, \h0FC000F0, \h00000090) THEN "MUL_MLA"
         ELSE IF MaskEq(raw, \h0F8000F0, \h00800090) THEN "MULL_MLAL"
         ELSE IF MaskEq(raw, \h0C000000, \h00000000) THEN "DataProcessing"
         ELSE IF MaskEq(raw, \h0FBF0FFF, \h010F0000) THEN "MRS"
         ELSE IF MaskEq(raw, \h0FBFFFF0, \h0129F000) THEN "MSR_Reg"
         ELSE IF MaskEq(raw, \h0DBFF000, \h0128F000) THEN "MSR_Flags"
         ELSE IF MaskEq(raw, \h0C000000, \h04000000) THEN "LDR_STR"
         ELSE IF MaskEq(raw, \h0E400F90, \h00000090) THEN "LDRH_STRH_Reg"
         ELSE IF MaskEq(raw, \h0E400090, \h00400090) THEN "LDRH_STRH_Imm"
         ELSE IF MaskEq(raw, \h0E000000, \h08000000) THEN "LDM_STM"
         ELSE IF MaskEq(raw, \h0F000000, \h0F000000) THEN "SWI"
         ELSE IF MaskEq(raw, \h0F000010, \h0E000000) THEN "CDP"
         ELSE IF MaskEq(raw, \h0F000010, \h0E000010) THEN "MRC_MCR"
         ELSE IF MaskEq(raw, \h0E000000, \h0C000000) THEN "LDC_STC"
         ELSE "Invalid")

(* [r, i]: Err(InvalidArmInstruction(raw)) or the decoded instruction.     *)
(* The tests are tried in this order and the first match wins.             *)
decode(raw) ==
    LET as(op) == IF op = "Invalid" THEN [r |-> Err("InvalidArmInstruction", raw, 0), i |-> nop]
                  ELSE [r |-> Ok, i |-> [raw |-> raw, op |-> op]]
    IN  as(IF MaskEq(raw, \h0FFFFFF0, \h012FFF10) THEN "BX"
         ELSE IF MaskEq(raw, \h0E000000, \h0A000000) THEN "B_BL"
         ELSE IF MaskEq(raw, \h0E000010, \h06000010) THEN "Unknown"
         ELSE IF MaskEq(raw, \h0FB00FF0, \h01000090) THEN "SWP"
         ELSE IF MaskEq(raw, \h0FC000F0, \h00000090) THEN "MUL_MLA"
         ELSE IF MaskEq(raw, \h0F8000F0, \h00800090) THEN "MULL_MLAL"
         ELSE IF MaskEq(raw, \h0FBF0FFF, \h010F0000) THEN "MRS"
         ELSE IF MaskEq(raw, \h0FBFFFF0, \h0129F000) THEN "MSR_Reg"
         ELSE IF MaskEq(raw, \h0DBFF000, \h0128F000) THEN "MSR_Flags"
         ELSE IF MaskEq(raw, \h0C000000, \h04000000) THEN "LDR_STR"
         ELSE IF MaskEq(raw, \h0E400F90, \h00000090) THEN "LDRH_STRH_Reg"
         ELSE IF MaskEq(raw, \h0E400090, \h00400090) THEN "LDRH_STRH_Imm"
         ELSE IF MaskEq(raw, \h0E000000, \h08000000) THEN "LDM_STM"
         ELSE IF MaskEq(raw, \h0F000000, \h0F000000) THEN "SWI"
         ELSE IF MaskEq(raw, \h0F000010, \h0E000000) THEN "CDP"
         ELSE IF MaskEq(raw, \h0F000010, \h0E000010) THEN "MRC_MCR"
         ELSE IF MaskEq(raw, \h0E000000, \h0C000000) THEN "LDC_STC"
         ELSE IF MaskEq(raw, \h0C000000, \h00000000) THEN "DataProcessing"
         ELSE "Invalid")

condition(inst) == Bits(inst.raw, 28, 4)

dpop(inst) == Bits(inst.raw, 21, 4)

ldrh_strh_op(inst) == Bits(inst.raw, 5, 2)

Rn(inst) == Bits(inst.raw, 16, 4)

Rd(inst) == Bits(inst.raw, 12, 4)

Rs(inst) == Bits(inst.raw, 8, 4)

Rm(inst) == Bits(inst.raw, 0, 4)

is_shift_field_register(inst) == Bit(inst.raw, 25) = 0

is_offset_field_immediate(inst) == is_shift_field_register(inst)

is_branch_with_link(inst) == Bit(inst.raw, 24) = 1

is_pre_indexed(inst) == Bit(inst.raw, 24) = 1

is_offset_added(inst) == Bit(inst.raw, 23) = 1

is_accessing_spsr(inst) == Bit(inst.raw, 22) = 1

is_signed(inst) == Bit(inst.raw, 22) = 1

is_transfering_bytes(inst) == Bit(inst.raw, 22) = 1

is_enforcing_user_mode(inst) == Bit(inst.raw, 22) = 1

is_accumulating(inst) == Bit(inst.raw, 21) = 1

is_auto_incrementing(inst) == Bit(inst.raw, 21) = 1

is_setting_flags(inst) == Bit(inst.raw, 20) = 1

is_load(inst) == Bit(inst.raw, 20) = 1

register_map(inst) == inst.raw % 65536

(* ((raw << 8) as i32) >> 6: the 24-bit field, sign-extended, times four   *)
branch_offset(inst) ==
    LET imm24 == inst.raw % (2^24)
    IN  (IF imm24 >= 2^23 THEN imm24 - 2^24 ELSE imm24) * 4

rotated_immediate(inst) == rotate_right(inst.raw % 256, 2 * Bits(inst.raw, 8, 4))

(* `-x` on an i32: i32::MIN has no negation; a build with overflow checks  *)
(* panics there, a build without them wraps.                               *)
neg32(x) ==
    IF x = (-2147483647) - 1
    THEN (IF overflow_checks THEN [r |-> Panic, v |-> 0] ELSE [r |-> Ok, v |-> x])
    ELSE [r |-> Ok, v |-> -x]

offset12(inst) ==
    LET off == inst.raw % 4096
    IN  IF is_offset_added(inst) THEN off ELSE -off

split_offset8(inst) ==
    LET off == Bits(inst.raw, 8, 4) * 16 + (inst.raw % 16)
    IN  IF is_offset_added(inst) THEN off ELSE -off

check_is_valid(inst) ==
    LET pc == 15
        rn == Rn(inst)
        rd == Rd(inst)
        rs == Rs(inst)
        rm == Rm(inst)
        op == inst.op
        has15 == Bit(inst.raw, 15) = 1
    IN  IF rn = pc /\ is_auto_incrementing(inst)
           /\ op \in {"LDC_STC", "LDR_STR", "LDRH_STRH_Reg", "LDRH_STRH_Imm"}
        THEN Err("InvalidUseOfR15", 0, 0)
        ELSE IF rn = pc /\ ~is_auto_incrementing(inst)
                /\ op \in {"SWP", "MUL_MLA", "MULL_MLAL", "LDM_STM"}
        THEN Err("InvalidUseOfR15", 0, 0)
        ELSE IF rd = pc /\ op \in {"MRS", "SWP", "MUL_MLA", "MULL_MLAL"}
        THEN Err("InvalidUseOfR15", 0, 0)
        ELSE IF rs = pc /\ op \in {"SWP", "MUL_MLA", "MULL_MLAL"}
        THEN Err("InvalidUseOfR15", 0, 0)
        ELSE IF rm = pc /\ op \in {"MSR_Reg", "MUL_MLA", "MULL_MLAL", "LDR_STR",
                                   "LDRH_STRH_Reg", "LDRH_STRH_Imm"}
        THEN Err("InvalidUseOfR15", 0, 0)
        ELSE IF rd = rm /\ (op = "MUL_MLA" \/ (op = "MULL_MLAL" /\ (rn = rm \/ rn = rd)))
        THEN Err("InvalidRegisterReuse", 0, 0)
        ELSE IF op \in {"LDRH_STRH_Reg", "LDRH_STRH_Imm"}
        THEN (IF is_auto_incrementing(inst) /\ ~is_pre_indexed(inst)
              THEN Err("InvalidOffsetWriteBack", 0, 0) ELSE Ok)
        ELSE IF op = "LDM_STM"
        THEN (IF ~(is_load(inst) /\ has15) /\ is_enforcing_user_mode(inst)
                 /\ is_auto_incrementing(inst)
              THEN Err("InvalidOffsetWriteBack", 0, 0) ELSE Ok)
        ELSE Ok

(* Shift results are [ok, v, c, r]: ok says whether v is a shift amount    *)
(* still to be applied (Ok(x)) or the finished operand (Err(y)).           *)
decode_Rs_shift(inst, a, regs) ==
    LET r == regs[Rs(inst)] % 256
        sh == Bits(inst.raw, 5, 2)
    IN  IF r = 0 THEN [ok |-> FALSE, v |-> a]
        ELSE IF r >= 32
        THEN [ok |-> FALSE,
              v |-> CASE sh \in {0, 1} -> 0
                      [] sh = 2 -> asr32(a, 31)
                      [] sh = 3 -> IF r = 32 THEN a ELSE rotate_right(a, r % 32)]
        ELSE [ok |-> TRUE, v |-> r]

calculate_shifted_register(inst, regs, carry) ==
    LET a == regs[Rm(inst)]
        sh == Bits(inst.raw, 5, 2)
        shift(d) ==
            IF ~d.ok THEN d.v
            ELSE CASE sh = 0 -> shl32(a, d.v)
                   [] sh = 1 -> lsr32(a, d.v)
                   [] sh = 2 -> asr32(a, d.v)
                   [] sh = 3 -> rotate_right(a, d.v % 32)
    IN  IF Bits(inst.raw, 7, 5) = 0 /\ Bit(inst.raw, 4) = 0
        THEN CASE sh = 0 -> a
               [] sh = 1 -> 0
               [] sh = 2 -> asr32(a, 31)
               [] sh = 3 -> SetBit(lsr32(a, 1), 31, B2I(carry))
        ELSE shift(IF Bit(inst.raw, 4) = 0 THEN [ok |-> TRUE, v |-> Bits(inst.raw, 7, 5)]
                   ELSE decode_Rs_shift(inst, a, regs))

calculate_shft_field(inst, regs, carry) ==
    IF is_shift_field_register(inst) THEN calculate_shifted_register(inst, regs, carry)
    ELSE rotated_immediate(inst)

calculate_shsr_field(inst, regs) ==
    IF is_shift_field_register(inst) THEN regs[Rm(inst)] ELSE rotated_immediate(inst)

(* `r - 1` on the u32 r = 0 panics with overflow checks and wraps without; *)
(* wrapping_shr then shifts by 31.                                         *)
decode_Rs_shift_with_carry(inst, a, regs, carry) ==
    LET r == regs[Rs(inst)] % 256
        sh == Bits(inst.raw, 5, 2)
        bit31 == a < 0
        r32 == r % 32
    IN  IF r = 0 THEN [ok |-> FALSE, v |-> a, c |-> carry, r |-> Ok]
        ELSE IF r >= 32
        THEN CASE sh = 0 -> [ok |-> FALSE, v |-> 0, c |-> (r = 32) /\ Bit(a, 0) = 1, r |-> Ok]
               [] sh = 1 -> [ok |-> FALSE, v |-> 0, c |-> (r = 32) /\ bit31, r |-> Ok]
               [] sh = 2 -> [ok |-> FALSE, v |-> asr32(a, 31), c |-> bit31, r |-> Ok]
               [] sh = 3 ->
                    IF r = 32 THEN [ok |-> FALSE, v |-> a, c |-> bit31, r |-> Ok]
                    ELSE IF r32 = 0
                    THEN (IF overflow_checks
                          THEN [ok |-> FALSE, v |-> 0, c |-> FALSE, r |-> Panic]
                          ELSE [ok |-> FALSE, v |-> a, c |-> bit31, r |-> Ok])
                    ELSE [ok |-> FALSE, v |-> rotate_right(a, r32),
                          c |-> Bit(a, r32 - 1) = 1, r |-> Ok]
        ELSE [ok |-> TRUE, v |-> r, c |-> carry, r |-> Ok]

(* [r, v, c] *)
calculate_shifted_register_with_carry(inst, regs, carry) ==
    LET a == regs[Rm(inst)]
        sh == Bits(inst.raw, 5, 2)
        carry_right(b) == Bit(a, b - 1) = 1
        shift(d) ==
            IF ~d.ok THEN [r |-> d.r, v |-> d.v, c |-> d.c]
            ELSE CASE sh = 0 -> [r |-> Ok, v |-> shl32(a, d.v), c |-> Bit(a, 32 - d.v) = 1]
                   [] sh = 1 -> [r |-> Ok, v |-> lsr32(a, d.v), c |-> carry_right(d.v)]
                   [] sh = 2 -> [r |-> Ok, v |-> asr32(a, d.v), c |-> carry_right(d.v)]
                   [] sh = 3 -> [r |-> Ok, v |-> rotate_right(a, d.v % 32),
                                 c |-> carry_right(d.v)]
    IN  IF Bits(inst.raw, 7, 5) = 0 /\ Bit(inst.raw, 4) = 0
        THEN CASE sh = 0 -> [r |-> Ok, v |-> a, c |-> carry]
               [] sh = 1 -> [r |-> Ok, v |-> 0, c |-> a < 0]
               [] sh = 2 -> [r |-> Ok, v |-> asr32(a, 31), c |-> a < 0]
               [] sh = 3 -> [r |-> Ok, v |-> SetBit(lsr32(a, 1), 31, B2I(carry)),
                             c |-> Bit(a, 0) = 1]
        ELSE shift(IF Bit(inst.raw, 4) = 0
                   THEN [ok |-> TRUE, v |-> Bits(inst.raw, 7, 5), c |-> carry, r |-> Ok]
                   ELSE decode_Rs_shift_with_carry(inst, a, regs, carry))

calculate_shft_field_with_carry(inst, regs, carry) ==
    IF is_shift_field_register(inst)
    THEN calculate_shifted_register_with_carry(inst, regs, carry)
    ELSE [r |-> Ok, v |-> rotated_immediate(inst), c |-> FALSE]

(* [r, v] *)
shifted_offset(inst, regs, carry) ==
    IF is_offset_field_immediate(inst) THEN [r |-> Ok, v |-> offset12(inst)]
    ELSE LET signed(offs) == IF is_offset_added(inst) THEN [r |-> Ok, v |-> offs]
                              ELSE neg32(offs)
         IN  signed(calculate_shifted_register(inst, regs, carry))

----------------------------------------------------------------------------
(* Multiplication on 16-bit limbs.                                         *)

(* x * y for 16-bit x, y as [hi, lo] *)
Mul16(x, y) ==
    LET p1 == x * (y % 256)
        p2 == x * (y \div 256)
        t == p1 + (p2 % 256) * 256
    IN  [hi |-> (p2 \div 256) + (t \div 65536), lo |-> t % 65536]

RECURSIVE ColSum(_, _, _, _)
ColSum(x, y, k, i) ==
    IF i > 4 THEN 0
    ELSE (IF k - i + 1 \in 1..4 THEN Mul16(x[i], y[k - i + 1]).lo ELSE 0)
         + (IF k - i \in 1..4 THEN Mul16(x[i], y[k - i]).hi ELSE 0)
         + ColSum(x, y, k, i + 1)

RECURSIVE LimbMulFrom(_, _, _, _)
LimbMulFrom(x, y, k, carry) ==
    IF k > 4 THEN << >>
    ELSE LET s == ColSum(x, y, k, 1) + carry
         IN  << s % 65536 >> \o LimbMulFrom(x, y, k + 1, s \div 65536)

u64_wrapping_mul(x, y) == LimbMulFrom(x, y, 1, 0)

(* `x as i64` and `x as u64` for an i32 x both sign-extend *)
as_i64(a) == << Lo16(a), Hi16(a), IF a < 0 THEN 65535 ELSE 0, IF a < 0 THEN 65535 ELSE 0 >>

wrapping_mul(a, b) ==
    LET p == u64_wrapping_mul(as_u32_as_u64(a), as_u32_as_u64(b))
    IN  Mk32(p[2], p[1])

----------------------------------------------------------------------------
(* arm7tdmi/exec/mod.rs: the ALU.                                          *)

(* [v, c, o]: result, carry out, signed overflow *)
alu_add_carry_overflow(a, b) ==
    LET res64 == u64_wrapping_add(as_u32_as_u64(a), as_u32_as_u64(b))
        out(x) == [v |-> x[1], c |-> u64_bit32(res64) # 0, o |-> x[2]]
    IN  out(overflowing_add(a, b))

alu_sub_carry_overflow(a, b) ==
    LET res64 == u64_wrapping_sub(as_u32_as_u64(a), as_u32_as_u64(b))
        out(x) == [v |-> x[1], c |-> u64_bit32(res64) # 0, o |-> x[2]]
    IN  out(overflowing_sub(a, b))

(* [r, v] *)
alu_data_processing(c, op, op1, op2) ==
    LET cy == B2I(PSR_C(c.cpsr))
    IN  CASE op = 0 -> [r |-> Ok, v |-> And32(op1, op2)]
          [] op = 1 -> [r |-> Ok, v |-> Xor32(op1, op2)]
          [] op = 2 -> [r |-> Ok, v |-> wrapping_sub(op1, op2)]
          [] op = 3 -> [r |-> Ok, v |-> wrapping_sub(op2, op1)]
          [] op = 4 -> [r |-> Ok, v |-> wrapping_add(op1, op2)]
          [] op = 5 -> [r |-> Ok, v |-> wrapping_add(wrapping_add(op1, op2), cy)]
          [] op = 6 -> [r |-> Ok, v |-> wrapping_sub(wrapping_sub(op1, op2), 1 - cy)]
          [] op = 7 -> [r |-> Ok, v |-> wrapping_sub(wrapping_sub(op2, op1), 1 - cy)]
          [] op \in 8..11 -> [r |-> Panic, v |-> 0]
          [] op = 12 -> [r |-> Ok, v |-> Or32(op1, op2)]
          [] op = 13 -> [r |-> Ok, v |-> op2]
          [] op = 14 -> [r |-> Ok, v |-> And32(op1, Not32(op2))]
          [] op = 15 -> [r |-> Ok, v |-> Not32(op2)]

is_test(op) == op \in 8..11

(* [c, v, some]: the CPU with its flags updated, and Some(v) or None *)
alu_data_processing_flags(c, op, op1, op2, shift_carry) ==
    LET cy == B2I(PSR_C(c.cpsr))
        logic(v) == [v |-> v, c |-> shift_carry, o |-> PSR_V(c.cpsr)]
        flags(x) ==
            [c |-> [c EXCEPT !.cpsr = set_V(set_C(set_Z(set_N(@, x.v < 0), x.v = 0), x.c), x.o)],
             v |-> x.v, some |-> ~is_test(op)]
    IN  flags(CASE op \in {0, 8} -> logic(And32(op1, op2))
                [] op \in {1, 9} -> logic(Xor32(op1, op2))
                [] op \in {2, 10} -> alu_sub_carry_overflow(op1, op2)
                [] op = 3 -> alu_sub_carry_overflow(op2, op1)
                [] op \in {4, 11} -> alu_add_carry_overflow(op1, op2)
                [] op = 5 -> alu_add_carry_overflow(op1, wrapping_add(op2, cy))
                [] op = 6 -> alu_sub_carry_overflow(op1, wrapping_sub(op2, 1 - cy))
                [] op = 7 -> alu_sub_carry_overflow(op2, wrapping_sub(op1, 1 - cy))
                [] op = 12 -> logic(Or32(op1, op2))
                [] op = 13 -> logic(op2)
                [] op = 14 -> logic(And32(op1, Not32(op2)))
                [] op = 15 -> logic(Not32(op2)))

----------------------------------------------------------------------------
(* arm7tdmi/mod.rs: the CPU core.                                          *)

PC == 15

new(bus) ==
    [gpr |-> [i \in 0..15 |-> 0],
     cpsr |-> PSR_default,
     spsr |-> [i \in 0..6 |-> PSR_default],
     decoded_arm |-> nop,
     fetched_arm |-> NOP_RAW,
     decoded_thumb |-> thumb_nop,
     fetched_thumb |-> THUMB_NOP_RAW,
     gpr_r8_r12_fiq |-> [i \in 0..4 |-> 0],
     gpr_r8_r12_other |-> [i \in 0..4 |-> 0],
     gpr_r13_all |-> [i \in 0..6 |-> 0],
     gpr_r14_all |-> [i \in 0..6 |-> 0],
     mode |-> "System",
     state |-> "ARM",
     irq_disable |-> FALSE,
     fiq_disable |-> FALSE,
     optimise_swi |-> FALSE,
     delay_cycles |-> 0,
     bus |-> bus]

set_swi_optimised(c, optimise) == [c EXCEPT !.optimise_swi = optimise]

reset_keeping_pc(c) ==
    [c EXCEPT !.cpsr = PSR_default,
              !.mode = "Supervisor",
              !.state = "ARM",
              !.irq_disable = TRUE,
              !.fiq_disable = TRUE]

reset(c) ==
    [c EXCEPT !.gpr[PC] = 0,
              !.cpsr = PSR_default,
              !.mode = "Supervisor",
              !.state = "ARM",
              !.irq_disable = TRUE,
              !.fiq_disable = TRUE]

change_mode(c, new_mode) ==
    LET cmi == ModeIndex(c.mode)
        nmi == ModeIndex(new_mode)
        ret_addr == c.gpr[PC]
        r14_all == [[c.gpr_r14_all EXCEPT ![cmi] = c.gpr[14]] EXCEPT ![nmi] = ret_addr]
        r13_all == [c.gpr_r13_all EXCEPT ![cmi] = c.gpr[13]]
        entering == (new_mode = "FIQ") /\ (c.mode # "FIQ")
        leaving == (new_mode # "FIQ") /\ (c.mode = "FIQ")
    IN  [c EXCEPT
           !.gpr_r14_all = r14_all,
           !.gpr_r13_all = r13_all,
           !.spsr[nmi] = c.cpsr,
           !.gpr_r8_r12_other = IF entering THEN [i \in 0..4 |-> c.gpr[i + 8]] ELSE @,
           !.gpr_r8_r12_fiq = IF leaving THEN [i \in 0..4 |-> c.gpr[i + 8]] ELSE @,
           !.gpr = [i \in 0..15 |->
                      IF i = 14 THEN ret_addr
                      ELSE IF i = 13 THEN r13_all[nmi]
                      ELSE IF i \in 8..12 /\ entering THEN c.gpr_r8_r12_fiq[i - 8]
                      ELSE IF i \in 8..12 /\ leaving THEN c.gpr_r8_r12_other[i - 8]
                      ELSE c.gpr[i]],
           !.cpsr = set_mode(c.cpsr, new_mode),
           !.mode = new_mode]

exception(c, ex) ==
    LET mask(p1) == IF disable_fiq_on_entry(ex) THEN disable_fiq(p1) ELSE p1
        enter(c1) == [c1 EXCEPT !.cpsr = mask(disable_irq(set_state(@, "ARM"))),
                                !.state = "ARM",
                                !.gpr[PC] = vector_address(ex)]
    IN  enter(change_mode(c, mode_on_entry(ex)))

flush_pipeline(c) ==
    [c EXCEPT !.decoded_arm = nop, !.fetched_arm = NOP_RAW,
              !.decoded_thumb = thumb_nop, !.fetched_thumb = THUMB_NOP_RAW]

increment_pc(c) ==
    [c EXCEPT !.gpr[PC] = wrapping_add(@, IF c.state = "ARM" THEN 4 ELSE 2)]

----------------------------------------------------------------------------
(* arm7tdmi/exec/execarm.rs: the ARM executor.  Every execute_* returns    *)
(* [c, r, a]: the CPU as the call leaves it, the Result, the CpuAction.    *)

Done(c, a) == [c |-> c, r |-> Ok, a |-> a]

Fail(c, r) == [c |-> c, r |-> r, a |-> "None"]

PrivilegedUserCode == Err("PrivilegedUserCode", 0, 0)

execute_bx(c, inst) ==
    LET addr == c.gpr[Rm(inst)]
        st == IF Bit(addr, 0) = 0 THEN "ARM" ELSE "THUMB"
    IN  Done([c EXCEPT !.state = st, !.cpsr = set_state(@, st),
                       !.gpr[15] = SetBit(addr, 0, 0)], "FlushPipeline")

(* execute_b_bl asking for no pipeline flush *)
execute_b_bl_without_flush(c, inst) ==
    LET c1 == IF is_branch_with_link(inst)
              THEN [c EXCEPT !.gpr[14] = wrapping_sub(c.gpr[15], 4)] ELSE c
    IN  Done([c1 EXCEPT !.gpr[15] = wrapping_add(@, branch_offset(inst))], "None")

execute_b_bl(c, inst) ==
    LET c1 == IF is_branch_with_link(inst)
              THEN [c EXCEPT !.gpr[14] = wrapping_sub(c.gpr[15], 4)] ELSE c
    IN  Done([c1 EXCEPT !.gpr[15] = wrapping_add(@, branch_offset(inst))], "FlushPipeline")

execute_mul_mla_s(c, inst) ==
    LET put(x) == Done([c EXCEPT !.gpr[Rn(inst)] = x,
                                 !.cpsr = set_C(set_Z(set_N(@, x < 0), x = 0), FALSE)], "None")
        acc(m) == IF is_accumulating(inst) THEN wrapping_add(m, c.gpr[Rd(inst)]) ELSE m
    IN  put(acc(wrapping_mul(c.gpr[Rs(inst)], c.gpr[Rm(inst)])))

execute_mul_mla(c, inst) ==
    IF is_setting_flags(inst) THEN execute_mul_mla_s(c, inst)
    ELSE LET acc(m) == IF is_accumulating(inst) THEN wrapping_add(m, c.gpr[Rd(inst)]) ELSE m
         IN  Done([c EXCEPT !.gpr[Rn(inst)] =
                               acc(wrapping_mul(c.gpr[Rs(inst)], c.gpr[Rm(inst)]))], "None")

execute_mull_mlal(c, inst) ==
    LET hi == c.gpr[Rn(inst)]
        acc(lo) == << lo[1], lo[2],
                      IF lo[3] = 65535 THEN 65535 ELSE Lo16(hi),
                      IF lo[4] = 65535 THEN 65535 ELSE Hi16(hi) >>
        put(res) ==
            LET c1 == [c EXCEPT !.gpr[Rn(inst)] = Mk32(res[4], res[3])]
                c2 == [c1 EXCEPT !.gpr[Rd(inst)] = Mk32(res[2], res[1])]
                p == set_V(set_C(set_Z(set_N(c.cpsr, res[4] >= 32768),
                                       res = << 0, 0, 0, 0 >>), FALSE), FALSE)
            IN  Done(IF is_setting_flags(inst) THEN [c2 EXCEPT !.cpsr = p] ELSE c2, "None")
        sum(prod) == IF is_accumulating(inst)
                     THEN u64_wrapping_add(prod, acc(as_i64(c.gpr[Rd(inst)]))) ELSE prod
    IN  put(sum(u64_wrapping_mul(as_i64(c.gpr[Rs(inst)]), as_i64(c.gpr[Rm(inst)]))))

execute_data_processing_s(c, inst) ==
    LET op1 == c.gpr[Rn(inst)]
        ret_from(c1) ==
            IF Rd(inst) = PC
            THEN (IF c1.mode = "User" THEN Fail(c1, PrivilegedUserCode)
                  ELSE Done([c1 EXCEPT !.cpsr = c1.spsr[ModeIndex(c1.mode)]], "FlushPipeline"))
            ELSE Done(c1, "None")
        put(res) == ret_from(IF res.some THEN [res.c EXCEPT !.gpr[Rd(inst)] = res.v]
                             ELSE res.c)
        alu(sh) == IF sh.r # Ok THEN Fail(c, sh.r)
                   ELSE put(alu_data_processing_flags(c, dpop(inst), op1, sh.v, sh.c))
    IN  alu(calculate_shft_field_with_carry(inst, c.gpr, PSR_C(c.cpsr)))

execute_data_processing(c, inst) ==
    IF is_setting_flags(inst) THEN execute_data_processing_s(c, inst)
    ELSE LET op1 == c.gpr[Rn(inst)]
             put(res) == IF res.r # Ok THEN Fail(c, res.r)
                         ELSE Done([c EXCEPT !.gpr[Rd(inst)] = res.v],
                                   IF Rd(inst) = PC THEN "FlushPipeline" ELSE "None")
         IN  put(alu_data_processing(c, dpop(inst), op1,
                                     calculate_shft_field(inst, c.gpr, PSR_C(c.cpsr))))

execute_mrs(c, inst) ==
    IF is_accessing_spsr(inst)
    THEN (IF c.mode = "User" THEN Fail(c, PrivilegedUserCode)
          ELSE Done([c EXCEPT !.gpr[Rd(inst)] = c.spsr[ModeIndex(c.mode)]], "None"))
    ELSE Done([c EXCEPT !.gpr[Rd(inst)] = c.cpsr], "None")

execute_msr_reg(c, inst) ==
    LET rm == c.gpr[Rm(inst)]
        switch(c1, old_mode) == IF old_mode = "Panic" THEN Fail(c1, Panic)
                                ELSE Done(change_mode(c1, old_mode), "None")
        written(c1) == switch(c1, PSR_mode(c1.cpsr))
    IN  IF c.mode = "User"
        THEN (IF is_accessing_spsr(inst) THEN Fail(c, PrivilegedUserCode)
              ELSE Done([c EXCEPT !.cpsr = override_flags(@, rm)], "None"))
        ELSE written(IF is_accessing_spsr(inst)
                     THEN [c EXCEPT !.spsr[ModeIndex(c.mode)] = override_non_reserved(@, rm)]
                     ELSE [c EXCEPT !.cpsr = override_non_reserved(@, rm)])

execute_msr_flags(c, inst) ==
    LET put(op) ==
          IF is_accessing_spsr(inst)
          THEN (IF c.mode = "User" THEN Fail(c, PrivilegedUserCode)
                ELSE Done([c EXCEPT !.spsr[ModeIndex(c.mode)] = override_flags(@, op)], "None"))
          ELSE Done([c EXCEPT !.cpsr = override_flags(@, op)], "None")
    IN  put(calculate_shsr_field(inst, c.gpr))

(* the write-back shared by LDR/STR and LDRH/STRH *)
WriteBack(c, inst, base, offs) ==
    IF ~is_pre_indexed(inst) THEN [c EXCEPT !.gpr[Rn(inst)] = wrapping_add(base, offs)]
    ELSE IF is_auto_incrementing(inst) THEN [c EXCEPT !.gpr[Rn(inst)] = base]
    ELSE c

execute_ldr_str(c, inst) ==
    LET loaded(ld, base, offs) ==
            IF ld.r # Ok THEN Fail(c, ld.r)
            ELSE Done(WriteBack([c EXCEPT !.gpr[Rd(inst)] = ld.v], inst, base, offs), "None")
        stored(st, base, offs) ==
            IF st.r # Ok THEN Fail([c EXCEPT !.bus = st.bus], st.r)
            ELSE Done(WriteBack([c EXCEPT !.bus = st.bus], inst, base, offs), "None")
        transfer(base, offs) ==
            IF is_load(inst)
            THEN loaded(IF is_transfering_bytes(inst) THEN load_byte(c.bus, base)
                        ELSE load_word(c.bus, base), base, offs)
            ELSE stored(IF is_transfering_bytes(inst)
                        THEN store_byte(c.bus, base, c.gpr[Rd(inst)])
                        ELSE store_word(c.bus, base, c.gpr[Rd(inst)]), base, offs)
        index(so) ==
            IF so.r # Ok THEN Fail(c, so.r)
            ELSE transfer(IF is_pre_indexed(inst) THEN wrapping_add(c.gpr[Rn(inst)], so.v)
                          ELSE c.gpr[Rn(inst)], so.v)
    IN  index(shifted_offset(inst, c.gpr, PSR_C(c.cpsr)))

sign_extend8(v) == IF v >= 128 THEN v - 256 ELSE v

sign_extend16(v) == IF v >= 32768 THEN v - 65536 ELSE v

execute_ldrh_strh(c, inst, imm) ==
    LET op == ldrh_strh_op(inst)
        sign8(b) == [r |-> b.r, v |-> sign_extend8(b.v)]
        sign16(h) == [r |-> h.r, v |-> sign_extend16(h.v)]
        loaded(ld, base, offs) ==
            IF ld.r # Ok THEN Fail(c, ld.r)
            ELSE Done(WriteBack([c EXCEPT !.gpr[Rd(inst)] = ld.v], inst, base, offs), "None")
        stored(st, base, offs) ==
            IF st.r # Ok THEN Fail([c EXCEPT !.bus = st.bus], st.r)
            ELSE Done(WriteBack([c EXCEPT !.bus = st.bus], inst, base, offs), "None")
        transfer(base, offs) ==
            IF is_load(inst)
            THEN loaded(CASE op = 1 -> load_halfword(c.bus, base)
                          [] op = 2 -> sign8(load_byte(c.bus, base))
                          [] op = 3 -> sign16(load_halfword(c.bus, base))
                          [] op = 0 -> [r |-> Panic, v |-> 0], base, offs)
            ELSE stored(CASE op = 1 -> store_halfword(c.bus, base, c.gpr[Rd(inst)])
                          [] op = 2 -> store_byte(c.bus, base, c.gpr[Rd(inst)])
                          [] op = 3 -> store_halfword(c.bus, base, c.gpr[Rd(inst)])
                          [] op = 0 -> [r |-> Panic, bus |-> c.bus], base, offs)
        index(so) ==
            IF so.r # Ok THEN Fail(c, so.r)
            ELSE transfer(IF is_pre_indexed(inst) THEN wrapping_add(c.gpr[Rn(inst)], so.v)
                          ELSE c.gpr[Rn(inst)], so.v)
    IN  index(IF imm THEN [r |-> Ok, v |-> split_offset8(inst)]
              ELSE IF is_offset_added(inst) THEN [r |-> Ok, v |-> c.gpr[Rm(inst)]]
              ELSE neg32(c.gpr[Rm(inst)]))

(* A transfer slot names where one register of a block transfer lives.     *)
ReadSlot(c, slot) ==
    CASE slot[1] = "gpr" -> c.gpr[slot[2]]
      [] slot[1] = "other" -> c.gpr_r8_r12_other[slot[2]]
      [] slot[1] = "r13_all" -> c.gpr_r13_all[slot[2]]
      [] slot[1] = "r14_all" -> c.gpr_r14_all[slot[2]]

WriteSlot(c, slot, v) ==
    CASE slot[1] = "gpr" -> [c EXCEPT !.gpr[slot[2]] = v]
      [] slot[1] = "other" -> [c EXCEPT !.gpr_r8_r12_other[slot[2]] = v]
      [] slot[1] = "r13_all" -> [c EXCEPT !.gpr_r13_all[slot[2]] = v]
      [] slot[1] = "r14_all" -> [c EXCEPT !.gpr_r14_all[slot[2]] = v]

(* the loop body `addr += offs.0; transfer; addr += offs.1`, slot by slot; *)
(* try! leaves the loop at the first error                                 *)
RECURSIVE Transfer(_, _, _, _, _, _)
Transfer(c, slots, k, addr, offs, load) ==
    LET loaded(ld, a) ==
            IF ld.r # Ok THEN [c |-> c, r |-> ld.r]
            ELSE Transfer(WriteSlot(c, slots[k], ld.v), slots, k + 1,
                          wrapping_add(a, offs[2]), offs, load)
        stored(st, a) ==
            IF st.r # Ok THEN [c |-> [c EXCEPT !.bus = st.bus], r |-> st.r]
            ELSE Transfer([c EXCEPT !.bus = st.bus], slots, k + 1,
                          wrapping_add(a, offs[2]), offs, load)
        at(a) == IF load THEN loaded(load_word(c.bus, a), a)
                 ELSE stored(store_word(c.bus, a, ReadSlot(c, slots[k])), a)
    IN  IF k > Len(slots) THEN [c |-> c, r |-> Ok]
        ELSE at(wrapping_add(addr, offs[1]))

RECURSIVE SlotsOf(_, _, _, _)
SlotsOf(rmap, i, last, f) ==
    IF i > last THEN << >>
    ELSE (IF (rmap \div (2^i)) % 2 = 1 THEN << f[i] >> ELSE << >>)
         \o SlotsOf(rmap, i + 1, last, f)

execute_ldm_stm_user_bank(c, rmap, addr, offs, load) ==
    LET f == [i \in 0..14 |->
                IF i \in 8..11 /\ c.mode = "FIQ" THEN << "other", i - 8 >>
                ELSE IF i = 13 THEN << "r13_all", ModeIndex("User") >>
                ELSE IF i = 14 THEN << "r14_all", ModeIndex("User") >>
                ELSE << "gpr", i >>]
        slots == SlotsOf(rmap, 0, 11, f) \o SlotsOf(rmap, 13, 14, f)
    IN  Transfer(c, slots, 1, addr, offs, load)

RECURSIVE count_ones(_)
count_ones(x) == IF x = 0 THEN 0 ELSE (x % 2) + count_ones(x \div 2)

execute_ldm_stm(c, inst) ==
    LET base == c.gpr[Rn(inst)]
        rmap == register_map(inst)
        r15 == Bit(rmap, 15) = 1
        psr == is_enforcing_user_mode(inst)
        load == is_load(inst)
        offs == IF is_pre_indexed(inst) = is_offset_added(inst) THEN << 4, 0 >> ELSE << 0, 4 >>
        privileged == psr /\ ~(r15 /\ load)
        switch(tc, new_mode) == IF new_mode = "Panic" THEN Fail(tc, Panic)
                                ELSE Done(change_mode(tc, new_mode), "None")
        moved(t) ==
            IF t.r # Ok THEN Fail(t.c, t.r)
            ELSE IF r15 /\ psr /\ load
            THEN (IF t.c.mode = "User" THEN Fail(t.c, PrivilegedUserCode)
                  ELSE switch(t.c, PSR_mode(t.c.spsr[ModeIndex(t.c.mode)])))
            ELSE Done(t.c, "None")
        block(c1, addr) ==
            IF privileged /\ c1.mode = "User" THEN Fail(c1, PrivilegedUserCode)
            ELSE moved(IF privileged THEN execute_ldm_stm_user_bank(c1, rmap, addr, offs, load)
                       ELSE Transfer(c1, SlotsOf(rmap, 0, 15, [i \in 0..15 |-> << "gpr", i >>]),
                                     1, addr, offs, load))
        sized(bytes) ==
            block(IF is_auto_incrementing(inst)
                  THEN [c EXCEPT !.gpr[Rn(inst)] = IF is_offset_added(inst)
                                                   THEN wrapping_add(base, bytes)
                                                   ELSE wrapping_sub(base, bytes)]
                  ELSE c,
                  IF is_offset_added(inst) THEN base ELSE wrapping_sub(base, bytes))
    IN  sized(4 * count_ones(rmap))

execute_swp(c, inst) ==
    LET base == c.gpr[Rn(inst)]
        byte == is_transfering_bytes(inst)
        stored(st, ld) ==
            IF st.r # Ok THEN Fail([c EXCEPT !.bus = st.bus], st.r)
            ELSE Done([c EXCEPT !.bus = st.bus, !.gpr[Rd(inst)] = ld.v], "None")
        loaded(ld) ==
            IF ld.r # Ok THEN Fail(c, ld.r)
            ELSE stored(IF byte THEN store_byte(c.bus, base, c.gpr[Rm(inst)])
                        ELSE store_word(c.bus, base, c.gpr[Rm(inst)]), ld)
    IN  loaded(IF byte THEN load_byte(c.bus, base) ELSE load_word(c.bus, base))

execute_swi(c, inst) ==
    IF c.optimise_swi THEN Fail(c, Panic)
    ELSE Done(exception(c, "SoftwareInterrupt"), "FlushPipeline")

execute_unknown(c, inst) == Done(exception(c, "UndefinedInstruction"), "None")

execute_arm_state(c, inst) ==
    LET op == inst.op
        run(do_exec) ==
          IF do_exec.r # Ok THEN Fail(c, do_exec.r)
          ELSE IF ~do_exec.v THEN Done(c, "None")
          ELSE CASE op = "BX" -> execute_bx(c, inst)
                 [] op = "B_BL" -> execute_b_bl(c, inst)
                 [] op = "MUL_MLA" -> execute_mul_mla(c, inst)
                 [] op = "MULL_MLAL" -> execute_mull_mlal(c, inst)
                 [] op = "DataProcessing" -> execute_data_processing(c, inst)
                 [] op = "MRS" -> execute_mrs(c, inst)
                 [] op = "MSR_Reg" -> execute_msr_reg(c, inst)
                 [] op = "MSR_Flags" -> execute_msr_flags(c, inst)
                 [] op = "LDR_STR" -> execute_ldr_str(c, inst)
                 [] op = "LDRH_STRH_Reg" -> execute_ldrh_strh(c, inst, FALSE)
                 [] op = "LDRH_STRH_Imm" -> execute_ldrh_strh(c, inst, TRUE)
                 [] op = "LDM_STM" -> execute_ldm_stm(c, inst)
                 [] op = "SWP" -> execute_swp(c, inst)
                 [] op = "SWI" -> execute_swi(c, inst)
                 [] op \in {"CDP", "LDC_STC", "MRC_MCR"} -> Fail(c, Panic)
                 [] op = "Unknown" -> execute_unknown(c, inst)
    IN  run(check(condition(inst), c.cpsr))

----------------------------------------------------------------------------
(* arm7tdmi/mod.rs: pipeline_step.  [c, r, x, a]: the CPU, the Result,     *)
(* whether the execute stage ran, and the CpuAction it returned.           *)

pipeline_step(c) ==
    LET Out(cc, r, x, a) == [c |-> cc, r |-> r, x |-> x, a |-> a]
        shift(c2, a) == IF a = "None" THEN Out(increment_pc(c2), Ok, TRUE, a)
                        ELSE Out(flush_pipeline(c2), Ok, TRUE, a)
        executed(e, f, d) ==
            IF e.r # Ok THEN Out(e.c, e.r, TRUE, "None")
            ELSE shift([e.c EXCEPT !.fetched_arm = f.v, !.decoded_arm = d.i], e.a)
        checked(valid, f, d) ==
            IF valid # Ok THEN Out(c, valid, FALSE, "None")
            ELSE executed(execute_arm_state(c, c.decoded_arm), f, d)
        decoded(d, f) ==
            IF d.r # Ok THEN Out(c, d.r, FALSE, "None")
            ELSE checked(check_is_valid(d.i), f, d)
        fetched(f) ==
            IF f.r # Ok THEN Out(c, f.r, FALSE, "None")
            ELSE decoded(decode(c.fetched_arm), f)
        fetched_half(h) ==
            IF h.r # Ok THEN Out(c, h.r, FALSE, "None")
            ELSE Out([c EXCEPT !.fetched_thumb = h.v], Panic, FALSE, "None")
    IN  IF c.delay_cycles > 0
        THEN Out([c EXCEPT !.delay_cycles = @ - 1], Ok, FALSE, "None")
        ELSE IF c.state = "ARM" THEN fetched(load_word(c.bus, c.gpr[PC]))
        ELSE fetched_half(load_halfword(c.bus, c.gpr[PC]))

----------------------------------------------------------------------------
(* Bounds of the explored behaviours.                                      *)

MaxOps == 4
MaxExcOps == 3
MaxBankOps == 5
MaxBusOps == 2

MaxFlowOps == 9

MaxLdmOps == 1

----------------------------------------------------------------------------
(* Programs and instruction words.                                         *)

EmptyStore == [i \in {} |-> 0]

ByteOf(w, k) ==
    CASE k = 0 -> Lo16(w) % 256 [] k = 1 -> Lo16(w) \div 256
      [] k = 2 -> Hi16(w) % 256 [] k = 3 -> Hi16(w) \div 256

(* the store holding the words of `prog` from offset 0 on *)
ProgramStore(prog) ==
    LET b(j) == ByteOf(prog[(j \div 4) + 1], j % 4)
    IN  [j \in {k \in 0..(4 * Len(prog) - 1) : b(k) # 0} |-> b(j)]

BusWith(prog) == [bios_rom |-> ProgramStore(prog), ioregs |-> EmptyStore, sram |-> EmptyStore]

(* MOV Rd, #imm8 (always) *)
MOV_imm(rd, imm) == Mk32(\hE3A0, rd * 4096 + imm)

(* MSR CPSR, Rm (always) *)
MSR_cpsr(rm) == Mk32(\hE129, \hF000 + rm)

(* MSR SPSR, Rm (always) *)
MSR_spsr(rm) == Mk32(\hE169, \hF000 + rm)

(* MSR CPSR_flg, Rm   and   MSR SPSR_flg, Rm (always) *)
MSR_cpsr_flg(rm) == Mk32(\hE128, \hF000 + rm)

MSR_spsr_flg(rm) == Mk32(\hE168, \hF000 + rm)

(* BX Rm (always) *)
BX_reg(rm) == Mk32(\hE12F, \hFF10 + rm)

(* B and BL to the address of the branch + 8 + 4 * words (always) *)
B_fwd(words) == Mk32(\hEA00, words)

BL_fwd(words) == Mk32(\hEB00, words)

(* B to the address of the branch + 8 - 4 * words (always) *)
B_back(words) == Mk32(\hEAFF, 65536 - words)

(* CDP p0, 0, c0, c0, c0;  MRC p0, 0, R0, c0, c0;  LDC p0, c0, [R0] *)
CDP_0 == Mk32(\hEE00, \h0000)

MRC_0 == Mk32(\hEE10, \h0010)

LDC_0 == Mk32(\hED90, \h0000)

(* LDR PC, [PC, #imm]   and   LDMIA R0, {PC} *)
LDR_PC_pc(imm) == Mk32(\hE59F, \hF000 + imm)

LDM_PC == Mk32(\hE890, \h8000)

(* MOVS PC, LR *)
MOVS_PC_LR == Mk32(\hE1B0, \hF00E)

(* LDMIA R0, {PC}^ *)
LDM_PC_psr == Mk32(\hE8D0, \h8000)

(* SWI 0 *)
SWI_0 == Mk32(\hEF00, 0)

(* an instruction of the undefined space (bits 27..25 = 011, bit 4 = 1) *)
UNDEFINED_INST == Mk32(\hE600, \h0010)

Programs == { << MOV_imm(1, 1), MOV_imm(2, 2) >>,
              << SWI_0, MOV_imm(1, 1), MOV_imm(2, 2) >>,
              << UNDEFINED_INST, MOV_imm(1, 1) >> }

(* Programs with a change of control flow.  A data word 16 sits where a   *)
(* load reads it; as an instruction it is ANDEQ and is not executed.       *)
FlowPrograms == { << MOV_imm(0, 1), BX_reg(0), MOV_imm(1, 1), MOV_imm(2, 2) >>,
                  << MOV_imm(0, 16), BX_reg(0), MOV_imm(1, 1), MOV_imm(2, 2), MOV_imm(3, 3) >>,
                  << B_fwd(2), MOV_imm(1, 1), MOV_imm(2, 2), MOV_imm(3, 3), MOV_imm(4, 4) >>,
                  << BL_fwd(2), MOV_imm(1, 1), MOV_imm(2, 2), MOV_imm(3, 3), MOV_imm(4, 4) >>,
                  << B_fwd(1), MOV_imm(1, 1), MOV_imm(2, 2), B_back(4) >>,
                  << CDP_0, MOV_imm(1, 1), MOV_imm(2, 2) >>,
                  << MRC_0, MOV_imm(1, 1), MOV_imm(2, 2) >>,
                  << LDC_0, MOV_imm(1, 1), MOV_imm(2, 2) >>,
                  << LDR_PC_pc(12), MOV_imm(1, 1), MOV_imm(2, 2), MOV_imm(3, 3),
                     MOV_imm(4, 4), 16 >>,
                  << MOV_imm(0, 20), LDM_PC, MOV_imm(1, 1), MOV_imm(2, 2),
                     MOV_imm(4, 4), 16 >> }

(* MOV R2, #0xF0000000 is MOV_imm(2, 0x20F): 0x0F rotated right by 4 *)
ExcWords == { MOV_imm(0, \h1F), MOV_imm(1, \h3F), MOV_imm(2, \h20F), MOV_imm(3, \hD1),
              MSR_cpsr(0), MSR_cpsr(1), MSR_cpsr(3), MSR_spsr(1),
              MSR_cpsr_flg(2), MSR_spsr_flg(2) }

BankWords == { MOV_imm(0, \h12), MOV_imm(1, \h1F), MOV_imm(2, \h10),
               MSR_cpsr(0), MSR_cpsr(1), MSR_cpsr(2),
               MOV_imm(8, 1), MOV_imm(13, 1), MOV_imm(14, 1),
               MOVS_PC_LR, LDM_PC_psr }

----------------------------------------------------------------------------
(* Observations: what the last call was and the CPU it started from, the   *)
(* call before it, and for each pipeline latch the address its content was *)
(* fetched from ({} for the filler of a flushed or new pipeline).          *)

ObsInit(c) ==
    [op |-> "new", ex |-> "None", inst |-> nop, pre |-> c,
     prev |-> [op |-> "new", ex |-> "None", inst |-> nop, gpr |-> c.gpr, mode |-> c.mode],
     fetched_from |-> {}, decoded_from |-> {}, exec_from |-> {}, exec_pc |-> 0,
     taken |-> "None", branch_to |-> {}, due |-> {}]

Observe(op, ex, inst) ==
    [op |-> op, ex |-> ex, inst |-> inst, pre |-> cpu,
     prev |-> [op |-> obs.op, ex |-> obs.ex, inst |-> obs.inst,
               gpr |-> obs.pre.gpr, mode |-> obs.pre.mode],
     fetched_from |-> obs.fetched_from, decoded_from |-> obs.decoded_from,
     exec_from |-> {}, exec_pc |-> 0, taken |-> "None",
     branch_to |-> {}, due |-> obs.branch_to]

(* where a B, BL or BX fetched from address a leads when it is executed    *)
(* from CPU c: a + 8 + the signed 24-bit word offset, or Rm without bit 0  *)
BranchTarget(c, inst, a) ==
    LET imm24 == inst.raw % (2^24)
        rm == c.gpr[inst.raw % 16]
    IN  IF inst.op = "B_BL"
        THEN a + 8 + 4 * (IF imm24 >= 2^23 THEN imm24 - 2^24 ELSE imm24)
        ELSE rm - (rm % 2)

(* the branch target still to be reached after the execute stage ran       *)
(* instruction inst, fetched from `from`, on CPU c                         *)
PendingAfter(c, inst, from) ==
    IF from = {} THEN obs.branch_to
    ELSE IF inst.op \in {"BX", "B_BL"} /\ check(condition(inst), c.cpsr).v
    THEN { BranchTarget(c, inst, a) : a \in from }
    ELSE {}

(* the exception an instruction takes when it is executed from CPU c *)
TakenBy(c, inst) ==
    LET t == check(condition(inst), c.cpsr)
    IN  IF t.r = Ok /\ t.v /\ inst.op = "SWI" /\ ~c.optimise_swi THEN "SoftwareInterrupt"
        ELSE IF t.r = Ok /\ t.v /\ inst.op = "Unknown" THEN "UndefinedInstruction"
        ELSE "None"

Running == ret.err # "Panic"

----------------------------------------------------------------------------
(* The machine: a CPU on its bus, driven through its public operations.    *)

InitCpu(progs) ==
    /\ \E prog \in progs : cpu = new(BusWith(prog))
    /\ ret = Ok
    /\ obs = ObsInit(cpu)
    /\ nops = 0
    /\ fin = [fn |-> "none"]
    /\ fout = 0
    /\ overflow_checks \in BOOLEAN

PipelineStep ==
    /\ Running
    /\ \E s \in {pipeline_step(cpu)} :
       LET flowed == s.r = Ok /\ s.x
       IN  /\ cpu' = s.c
           /\ ret' = s.r
           /\ obs' = [Observe("pipeline_step", "None", cpu.decoded_arm) EXCEPT
                        !.fetched_from = IF ~flowed THEN obs.fetched_from
                                         ELSE IF s.a = "FlushPipeline" THEN {}
                                         ELSE {cpu.gpr[PC]},
                        !.decoded_from = IF ~flowed THEN obs.decoded_from
                                         ELSE IF s.a = "FlushPipeline" THEN {}
                                         ELSE obs.fetched_from,
                        !.exec_from = IF s.x THEN obs.decoded_from ELSE {},
                        !.exec_pc = cpu.gpr[PC],
                        !.taken = IF flowed THEN TakenBy(cpu, cpu.decoded_arm) ELSE "None",
                        !.branch_to = IF flowed
                                      THEN PendingAfter(cpu, cpu.decoded_arm, obs.decoded_from)
                                      ELSE obs.branch_to]
    /\ nops' = nops + 1
    /\ UNCHANGED << fin, fout, overflow_checks >>

RaiseException(ex) ==
    /\ Running
    /\ cpu' = exception(cpu, ex)
    /\ ret' = Ok
    /\ obs' = [Observe("exception", ex, nop) EXCEPT !.taken = ex]
    /\ nops' = nops + 1
    /\ UNCHANGED << fin, fout, overflow_checks >>

Reset ==
    /\ Running
    /\ cpu' = reset(cpu)
    /\ ret' = Ok
    /\ obs' = Observe("reset", "None", nop)
    /\ nops' = nops + 1
    /\ UNCHANGED << fin, fout, overflow_checks >>

ExecuteArmState(raw) ==
    /\ Running
    /\ \E d \in {decode(raw)} :
          /\ d.r = Ok
          /\ \E e \in {execute_arm_state(cpu, d.i)} :
                /\ cpu' = e.c
                /\ ret' = e.r
                /\ obs' = [Observe("execute_arm_state", "None", d.i) EXCEPT
                             !.taken = IF e.r = Ok THEN TakenBy(cpu, d.i) ELSE "None"]
    /\ nops' = nops + 1
    /\ UNCHANGED << fin, fout, overflow_checks >>

(* The pipeline: a BIOS program stepped through, with exceptions and       *)
(* resets arriving between steps.                                          *)
Init == InitCpu(Programs)

Next ==
    /\ nops < MaxOps
    /\ \/ PipelineStep
       \/ \E ex \in Exceptions : RaiseException(ex)
       \/ Reset

Spec == Init /\ [][Next]_vars

(* Exceptions and resets taken from the states the PSR can be put in.      *)
InitExc == InitCpu({ << >> })

NextExc ==
    /\ nops < MaxExcOps
    /\ \/ \E w \in ExcWords : ExecuteArmState(w)
       \/ \E ex \in Exceptions : RaiseException(ex)
       \/ Reset

SpecExc == InitExc /\ [][NextExc]_vars

(* Branches, loads into PC and co-processor instructions, stepped through. *)
InitFlow == InitCpu(FlowPrograms)

NextFlow ==
    /\ nops < MaxFlowOps
    /\ PipelineStep

SpecFlow == InitFlow /\ [][NextFlow]_vars

(* Mode switches and exception returns over the register banks.            *)
InitBank == InitCpu({ << >> })

NextBank ==
    /\ nops < MaxBankOps
    /\ \/ \E w \in BankWords : ExecuteArmState(w)
       \/ RaiseException("FastInterrupt")

SpecBank == InitBank /\ [][NextBank]_vars

----------------------------------------------------------------------------
(* The bus on its own: loads and stores of the three widths.               *)

WORD_DDCCBBAA == Mk32(\hDDCC, \hBBAA)

BusAddrs == { \h00000000, \h00000002, \h00000003, \h04000000, \h04000001, \h04000002,
              \h040003FC, \h040003FF, \h0E000000, \h0E000001, \h02000000, \h03000000,
              \h05000000, \h06000000, \h07000000, \h08000000, \h0A000000, \h0C000000,
              \h10000000 }

BusData == { WORD_DDCCBBAA, \h1234 }

InitBus ==
    /\ InitCpu({ << WORD_DDCCBBAA >>, << >> })

BusLoad(fn, addr) ==
    /\ Running
    /\ \E l \in {CASE fn = "load_word" -> load_word(cpu.bus, addr)
                  [] fn = "load_halfword" -> load_halfword(cpu.bus, addr)
                  [] fn = "load_byte" -> load_byte(cpu.bus, addr)} :
          /\ ret' = l.r
          /\ fout' = l.v
    /\ fin' = [fn |-> fn, addr |-> addr, data |-> 0, bus |-> cpu.bus]
    /\ nops' = nops + 1
    /\ UNCHANGED << cpu, obs, overflow_checks >>

BusStore(fn, addr, data) ==
    /\ Running
    /\ \E s \in {CASE fn = "store_word" -> store_word(cpu.bus, addr, data)
                  [] fn = "store_halfword" -> store_halfword(cpu.bus, addr, data)
                  [] fn = "store_byte" -> store_byte(cpu.bus, addr, data)} :
          /\ ret' = s.r
          /\ cpu' = [cpu EXCEPT !.bus = s.bus]
    /\ fin' = [fn |-> fn, addr |-> addr, data |-> data, bus |-> cpu.bus]
    /\ fout' = 0
    /\ nops' = nops + 1
    /\ UNCHANGED << obs, overflow_checks >>

NextBus ==
    /\ nops < MaxBusOps
    /\ \/ \E fn \in {"load_word", "load_halfword", "load_byte"} :
             \E addr \in BusAddrs : BusLoad(fn, addr)
       \/ \E fn \in {"store_word", "store_halfword", "store_byte"} :
             \E addr \in BusAddrs : \E data \in BusData : BusStore(fn, addr, data)

SpecBus == InitBus /\ [][NextBus]_vars

----------------------------------------------------------------------------
(* The ALU's subtraction applied to operand pairs, on its own and through  *)
(* the flag-setting data-processing path (SUBS = 2, CMP = 10).             *)

AluValues == { 0, 1, 2, 2147483647, (-2147483647) - 1, -1, WORD_DDCCBBAA }

InitAlu ==
    /\ cpu = new(BusWith(<< >>))
    /\ ret = Ok
    /\ obs = ObsInit(cpu)
    /\ nops = 0
    /\ \E a \in AluValues : \E b \in AluValues :
          fin = [fn |-> "none", a |-> a, b |-> b, op |-> 0]
    /\ fout = [v |-> 0, c |-> FALSE, o |-> FALSE]
    /\ overflow_checks \in BOOLEAN

AluSubCarryOverflow ==
    /\ fin.fn = "none"
    /\ fout' = alu_sub_carry_overflow(fin.a, fin.b)
    /\ fin' = [fin EXCEPT !.fn = "alu_sub_carry_overflow"]
    /\ nops' = nops + 1
    /\ UNCHANGED << cpu, ret, obs, overflow_checks >>

AluDataProcessingFlags(op) ==
    /\ fin.fn = "none"
    /\ \E x \in {alu_data_processing_flags(cpu, op, fin.a, fin.b, FALSE)} :
          /\ cpu' = x.c
          /\ fout' = [v |-> x.v, c |-> PSR_C(x.c.cpsr), o |-> PSR_V(x.c.cpsr)]
    /\ fin' = [fin EXCEPT !.fn = "alu_data_processing_flags", !.op = op]
    /\ nops' = nops + 1
    /\ UNCHANGED << ret, obs, overflow_checks >>

NextAlu ==
    \/ AluSubCarryOverflow
    \/ \E op \in {2, 10} : AluDataProcessingFlags(op)

SpecAlu == InitAlu /\ [][NextAlu]_vars

----------------------------------------------------------------------------
(* The condition evaluator applied to every code under every flag          *)
(* combination (flags = N*8 + Z*4 + C*2 + V).                              *)

InitCond ==
    /\ cpu = new(BusWith(<< >>))
    /\ ret = Ok
    /\ obs = ObsInit(cpu)
    /\ nops = 0
    /\ \E cond \in 0..15 : \E flags \in 0..15 :
          fin = [fn |-> "none", cond |-> cond, flags |-> flags]
    /\ fout = [r |-> Ok, v |-> FALSE]
    /\ overflow_checks \in BOOLEAN

CheckCondition ==
    /\ fin.fn = "none"
    /\ fout' = check(fin.cond, Compose4_28(fin.flags, PSR_default))
    /\ fin' = [fin EXCEPT !.fn = "check"]
    /\ nops' = nops + 1
    /\ UNCHANGED << cpu, ret, obs, overflow_checks >>

NextCond == CheckCondition

SpecCond == InitCond /\ [][NextCond]_vars

----------------------------------------------------------------------------
(* exec/armbsop.rs and exec/mod.rs: the shared barrel shifter.             *)
(* A barrel shifter opcode is [tag, x]; results are [r, v, c].             *)

decode_immediate(op, imm) ==
    CASE op % 4 = 0 -> IF imm = 0 THEN [tag |-> "NOP", x |-> 0] ELSE [tag |-> "LSL_Imm", x |-> imm]
      [] op % 4 = 1 -> IF imm = 0 THEN [tag |-> "LSR_32", x |-> 0] ELSE [tag |-> "LSR_Imm", x |-> imm]
      [] op % 4 = 2 -> IF imm = 0 THEN [tag |-> "ASR_32", x |-> 0] ELSE [tag |-> "ASR_Imm", x |-> imm]
      [] op % 4 = 3 -> IF imm = 0 THEN [tag |-> "RRX", x |-> 0] ELSE [tag |-> "ROR_Imm", x |-> imm]

decode_register(op, reg) ==
    CASE op % 4 = 0 -> [tag |-> "LSL_Reg", x |-> reg]
      [] op % 4 = 1 -> [tag |-> "LSR_Reg", x |-> reg]
      [] op % 4 = 2 -> [tag |-> "ASR_Reg", x |-> reg]
      [] op % 4 = 3 -> [tag |-> "ROR_Reg", x |-> reg]

alu_rrx(op1, c) == SetBit(lsr32(op1, 1), 31, B2I(c))

(* `32 - op2` is a shift by 32 when op2 = 0: a panic with overflow checks, *)
(* a shift by 0 without.                                                   *)
alu_lsl_imm_carry(op1, op2) ==
    IF op2 = 0
    THEN (IF overflow_checks THEN [r |-> Panic, v |-> 0, c |-> FALSE]
          ELSE [r |-> Ok, v |-> op1, c |-> Bit(op1, 0) = 1])
    ELSE [r |-> Ok, v |-> shl32(op1, op2), c |-> Bit(op1, 32 - op2) = 1]

(* `op2 - 1` on the u32 op2 = 0 panics with overflow checks and wraps      *)
(* without; the shift is then by 31.                                       *)
alu_lsr_imm_carry(op1, op2) ==
    IF op2 = 0
    THEN (IF overflow_checks THEN [r |-> Panic, v |-> 0, c |-> FALSE]
          ELSE [r |-> Ok, v |-> op1, c |-> op1 < 0])
    ELSE [r |-> Ok, v |-> lsr32(op1, op2), c |-> Bit(op1, op2 - 1) = 1]

alu_asr_imm_carry(op1, op2) ==
    IF op2 = 0
    THEN (IF overflow_checks THEN [r |-> Panic, v |-> 0, c |-> FALSE]
          ELSE [r |-> Ok, v |-> op1, c |-> op1 < 0])
    ELSE [r |-> Ok, v |-> asr32(op1, op2), c |-> Bit(op1, op2 - 1) = 1]

alu_ror_imm_carry(op1, op2) ==
    IF op2 = 0
    THEN (IF overflow_checks THEN [r |-> Panic, v |-> 0, c |-> FALSE]
          ELSE [r |-> Ok, v |-> op1, c |-> op1 < 0])
    ELSE [r |-> Ok, v |-> rotate_right(op1, op2), c |-> Bit(op1, op2 - 1) = 1]

alu_lsl_reg_carry(op1, op2, c) ==
    IF op2 = 0 THEN [r |-> Ok, v |-> op1, c |-> c]
    ELSE IF op2 < 32 THEN alu_lsl_imm_carry(op1, op2)
    ELSE IF op2 = 32 THEN [r |-> Ok, v |-> 0, c |-> Bit(op1, 0) = 1]
    ELSE [r |-> Ok, v |-> 0, c |-> FALSE]

alu_lsr_reg_carry(op1, op2, c) ==
    IF op2 = 0 THEN [r |-> Ok, v |-> op1, c |-> c]
    ELSE IF op2 < 32 THEN alu_lsr_imm_carry(op1, op2)
    ELSE IF op2 = 32 THEN [r |-> Ok, v |-> 0, c |-> op1 < 0]
    ELSE [r |-> Ok, v |-> 0, c |-> FALSE]

alu_asr_reg_carry(op1, op2, c) ==
    IF op2 = 0 THEN [r |-> Ok, v |-> op1, c |-> c]
    ELSE IF op2 < 32 THEN alu_asr_imm_carry(op1, op2)
    ELSE [r |-> Ok, v |-> asr32(op1, 31), c |-> op1 < 0]

alu_ror_reg_carry(op1, op2, c) ==
    IF op2 = 0 THEN [r |-> Ok, v |-> op1, c |-> c]
    ELSE IF op2 = 32 THEN [r |-> Ok, v |-> op1, c |-> op1 < 0]
    ELSE alu_ror_imm_carry(op1, op2 % 32)

alu_barrel_shifter_carry(c, bsop, op1) ==
    CASE bsop.tag = "LSL_Imm" -> alu_lsl_imm_carry(op1, bsop.x)
      [] bsop.tag = "LSR_Imm" -> alu_lsr_imm_carry(op1, bsop.x)
      [] bsop.tag = "ASR_Imm" -> alu_asr_imm_carry(op1, bsop.x)
      [] bsop.tag = "ROR_Imm" -> alu_ror_imm_carry(op1, bsop.x)
      [] bsop.tag = "NOP" -> [r |-> Ok, v |-> op1, c |-> PSR_C(c.cpsr)]
      [] bsop.tag = "LSR_32" -> [r |-> Ok, v |-> lsr32(op1, 31), c |-> FALSE]
      [] bsop.tag = "ASR_32" -> [r |-> Ok, v |-> asr32(op1, 31), c |-> op1 < 0]
      [] bsop.tag = "RRX" -> [r |-> Ok, v |-> alu_rrx(op1, PSR_C(c.cpsr)), c |-> Bit(op1, 0) = 1]
      [] bsop.tag = "LSL_Reg" -> alu_lsl_reg_carry(op1, c.gpr[bsop.x] % 256, PSR_C(c.cpsr))
      [] bsop.tag = "LSR_Reg" -> alu_lsr_reg_carry(op1, c.gpr[bsop.x] % 256, PSR_C(c.cpsr))
      [] bsop.tag = "ASR_Reg" -> alu_asr_reg_carry(op1, c.gpr[bsop.x] % 256, PSR_C(c.cpsr))
      [] bsop.tag = "ROR_Reg" -> alu_ror_reg_carry(op1, c.gpr[bsop.x] % 256, PSR_C(c.cpsr))

alu_lsl_reg(op1, op2) == IF op2 < 32 THEN shl32(op1, op2) ELSE 0

alu_asr_reg(op1, op2) == IF op2 < 32 THEN asr32(op1, op2) ELSE asr32(op1, 31)

alu_ror_reg(op1, op2) == rotate_right(op1, op2 % 32)

alu_lsr_reg(op1, op2) == IF op2 < 32 THEN lsr32(op1, op2) ELSE lsr32(op1, 31)

alu_barrel_shifter(c, bsop, op1) ==
    CASE bsop.tag = "LSL_Imm" -> shl32(op1, bsop.x)
      [] bsop.tag = "LSR_Imm" -> lsr32(op1, bsop.x)
      [] bsop.tag = "ASR_Imm" -> asr32(op1, bsop.x)
      [] bsop.tag = "ROR_Imm" -> rotate_right(op1, bsop.x)
      [] bsop.tag = "NOP" -> op1
      [] bsop.tag = "LSR_32" -> 0
      [] bsop.tag = "ASR_32" -> asr32(op1, 31)
      [] bsop.tag = "RRX" -> alu_rrx(op1, PSR_C(c.cpsr))
      [] bsop.tag = "LSL_Reg" -> alu_lsl_reg(op1, c.gpr[bsop.x] % 256)
      [] bsop.tag = "LSR_Reg" -> alu_lsr_reg(op1, c.gpr[bsop.x] % 256)
      [] bsop.tag = "ASR_Reg" -> alu_asr_reg(op1, c.gpr[bsop.x] % 256)
      [] bsop.tag = "ROR_Reg" -> alu_ror_reg(op1, c.gpr[bsop.x] % 256)

----------------------------------------------------------------------------
(* The two shifters applied to the same operand: R1 shifted by an          *)
(* immediate amount or by the amount in R2, with a chosen carry-in.        *)

ShiftValues == { 0, 1, 2147483647, (-2147483647) - 1, -1, WORD_DDCCBBAA }

ShiftAmounts == { 0, 1, 31, 32, 33, 64, 65, 255 }

(* MOVS R0, R1, <op> #amt   and   MOVS R0, R1, <op> R2 *)
MOVS_shift_imm(op, amt) == Mk32(\hE1B0, amt * 128 + op * 32 + 1)

MOVS_shift_reg(op) == Mk32(\hE1B0, 2 * 256 + op * 32 + 16 + 1)

InitShift ==
    /\ \E a \in ShiftValues : \E amt \in ShiftAmounts : \E op \in 0..3 :
       \E carry \in BOOLEAN : \E by \in {"imm", "reg"} :
          /\ by = "imm" => amt < 32
          /\ cpu = [new(BusWith(<< >>)) EXCEPT
                        !.gpr = [i \in 0..15 |-> IF i = 1 THEN a ELSE IF i = 2 THEN amt ELSE 0],
                        !.cpsr = SetBit(PSR_default, C_FLAG_BIT, B2I(carry))]
          /\ fin = [fn |-> "none", op |-> op, amt |-> amt, by |-> by, a |-> a, carry |-> carry]
    /\ ret = Ok
    /\ obs = ObsInit(cpu)
    /\ nops = 0
    /\ fout = [v |-> 0, c |-> FALSE]
    /\ overflow_checks \in BOOLEAN

BarrelShifterCarry ==
    /\ fin.fn = "none"
    /\ \E x \in {alu_barrel_shifter_carry(cpu,
                    IF fin.by = "imm" THEN decode_immediate(fin.op, fin.amt)
                    ELSE decode_register(fin.op, 2), cpu.gpr[1])} :
          /\ fout' = [v |-> x.v, c |-> x.c]
          /\ ret' = x.r
    /\ fin' = [fin EXCEPT !.fn = "alu_barrel_shifter_carry"]
    /\ nops' = nops + 1
    /\ UNCHANGED << cpu, obs, overflow_checks >>

ShiftedRegisterWithCarry ==
    /\ fin.fn = "none"
    /\ \E x \in {calculate_shifted_register_with_carry(
                    decode(IF fin.by = "imm" THEN MOVS_shift_imm(fin.op, fin.amt)
                           ELSE MOVS_shift_reg(fin.op)).i,
                    cpu.gpr, PSR_C(cpu.cpsr))} :
          /\ fout' = [v |-> x.v, c |-> x.c]
          /\ ret' = x.r
    /\ fin' = [fin EXCEPT !.fn = "calculate_shifted_register_with_carry"]
    /\ nops' = nops + 1
    /\ UNCHANGED << cpu, obs, overflow_checks >>

(* the same two shifters where no carry is asked for: fout.c stays unset   *)
BarrelShifter ==
    /\ fin.fn = "none"
    /\ fout' = [v |-> alu_barrel_shifter(cpu,
                          IF fin.by = "imm" THEN decode_immediate(fin.op, fin.amt)
                          ELSE decode_register(fin.op, 2), cpu.gpr[1]),
                c |-> FALSE]
    /\ ret' = Ok
    /\ fin' = [fin EXCEPT !.fn = "alu_barrel_shifter"]
    /\ nops' = nops + 1
    /\ UNCHANGED << cpu, obs, overflow_checks >>

ShiftedRegister ==
    /\ fin.fn = "none"
    /\ fout' = [v |-> calculate_shifted_register(
                          decode(IF fin.by = "imm" THEN MOVS_shift_imm(fin.op, fin.amt)
                                 ELSE MOVS_shift_reg(fin.op)).i,
                          cpu.gpr, PSR_C(cpu.cpsr)),
                c |-> FALSE]
    /\ ret' = Ok
    /\ fin' = [fin EXCEPT !.fn = "calculate_shifted_register"]
    /\ nops' = nops + 1
    /\ UNCHANGED << cpu, obs, overflow_checks >>

NextShift ==
    \/ BarrelShifterCarry
    \/ ShiftedRegisterWithCarry
    \/ BarrelShifter
    \/ ShiftedRegister

SpecShift == InitShift /\ [][NextShift]_vars

----------------------------------------------------------------------------
(* The decoder and the validity check applied to instruction words built   *)
(* from a high and a low halfword.                                         *)

DecodeHi == { \hE12F, \hEA00, \hEB00, \hE600, \hE100, \hE140, \hE000, \hE020, \hE03F,
              \hE080, \hE0C0, \hE0AF, \hE10F, \hE14F, \hE129, \hE128, \hE328, \hE400,
              \hE590, \hE190, \hE1D0, \hE890, \hE8AF, \hE92F, \hEF00, \hEE00, \hEC00,
              \hED10, \hE1A0, \hE3A0, \h0001, \hE10F + 1, \hE00F, \hE08F, \hE1F0 }

DecodeLo == { \h0000, \h0090, \h0010, \hFF10, \hF000, \hF002, \h1000, \h00B0, \h0FFF,
              \h2394, \h00F0, \h0F90, \h1291, \hF291, \h1F91, \h129F, \h1191, \h2391,
              \h109F }

InitDecode ==
    /\ cpu = new(BusWith(<< >>))
    /\ ret = Ok
    /\ obs = ObsInit(cpu)
    /\ nops = 0
    /\ \E hi \in DecodeHi : \E lo \in DecodeLo : fin = [fn |-> "none", raw |-> Mk32(hi, lo)]
    /\ fout = nop
    /\ overflow_checks \in BOOLEAN

Decode ==
    /\ fin.fn = "none"
    /\ \E d \in {decode(fin.raw)} : fout' = d.i /\ ret' = d.r
    /\ fin' = [fin EXCEPT !.fn = "decode"]
    /\ nops' = nops + 1
    /\ UNCHANGED << cpu, obs, overflow_checks >>

CheckIsValid ==
    /\ fin.fn = "none"
    /\ \E d \in {decode(fin.raw)} :
          /\ d.r = Ok
          /\ fout' = d.i
          /\ ret' = check_is_valid(d.i)
    /\ fin' = [fin EXCEPT !.fn = "check_is_valid"]
    /\ nops' = nops + 1
    /\ UNCHANGED << cpu, obs, overflow_checks >>

NextDecode == Decode \/ CheckIsValid

SpecDecode == InitDecode /\ [][NextDecode]_vars

----------------------------------------------------------------------------
(* Block transfers on their own: one LDM or STM of every addressing mode,  *)
(* over the I/O registers, from a CPU whose registers and memory words     *)
(* all differ.                                                             *)

LdmBase == \h04000100

(* 100 P U S W L Rn list (always) *)
LDM_STM_word(p, u, s, w, l, rn, list) ==
    Mk32(\hE800 + 256 * p + 128 * u + 64 * s + 32 * w + 16 * l + rn, list)

(* {R1,R2}, {R0,R5,R7}, {R1,R12}, {R4} *)
LdmLists == { \h0006, \h00A1, \h1002, \h0010 }

LdmWords == { LDM_STM_word(p, u, s, w, l, rn, list) :
                 p \in 0..1, u \in 0..1, s \in 0..1, w \in 0..1, l \in 0..1,
                 rn \in {0, 3}, list \in LdmLists }

(* the word at offset o of the I/O registers is 0x40 + o / 4 *)
LdmStore == [o \in { 4 * k : k \in 56..72 } |-> 64 + (o \div 4)]

InitLdm ==
    /\ cpu = [new([bios_rom |-> EmptyStore, ioregs |-> LdmStore, sram |-> EmptyStore]) EXCEPT
                 !.gpr = [i \in 0..15 |-> IF i \in {0, 3} THEN LdmBase
                                          ELSE IF i = 15 THEN 0 ELSE 32 + i]]
    /\ ret = Ok
    /\ obs = ObsInit(cpu)
    /\ nops = 0
    /\ fin = [fn |-> "none"]
    /\ fout = 0
    /\ overflow_checks \in BOOLEAN

NextLdm ==
    /\ nops < MaxLdmOps
    /\ \E w \in LdmWords : ExecuteArmState(w)

SpecLdm == InitLdm /\ [][NextLdm]_vars

----------------------------------------------------------------------------
(* The address classifier applied to the edges of every region.            *)

RegionEdges == { BIOS_ROM_FIRST, BIOS_ROM_LAST, WRAM_ON_BOARD_FIRST, WRAM_ON_BOARD_LAST,
                 WRAM_ON_CHIP_FIRST, WRAM_ON_CHIP_LAST, IO_REGISTERS_FIRST, IO_REGISTERS_LAST,
                 PALETTE_RAM_FIRST, PALETTE_RAM_LAST, VRAM_FIRST, VRAM_LAST,
                 OBJ_ATTRIBUTES_FIRST, OBJ_ATTRIBUTES_LAST,
                 GAME_PAK_WS0_ROM_FIRST, GAME_PAK_WS0_ROM_LAST,
                 GAME_PAK_WS1_ROM_FIRST, GAME_PAK_WS1_ROM_LAST,
                 GAME_PAK_WS2_ROM_FIRST, GAME_PAK_WS2_ROM_LAST,
                 GAME_PAK_SRAM_FIRST, GAME_PAK_SRAM_LAST }

MapAddrs == RegionEdges \cup { e - 1 : e \in RegionEdges } \cup { e + 1 : e \in RegionEdges }
            \cup { 2147483647, (-2147483647) - 1, -2 }

InitMap ==
    /\ cpu = new(BusWith(<< >>))
    /\ ret = Ok
    /\ obs = ObsInit(cpu)
    /\ nops = 0
    /\ \E a \in MapAddrs : fin = [fn |-> "none", addr |-> a]
    /\ fout = PA("Invalid", 0)
    /\ overflow_checks \in BOOLEAN

Classify ==
    /\ fin.fn = "none"
    /\ fout' = from_u32(fin.addr)
    /\ fin' = [fin EXCEPT !.fn = "from_u32"]
    /\ nops' = nops + 1
    /\ UNCHANGED << cpu, ret, obs, overflow_checks >>

NextMap == Classify

SpecMap == InitMap /\ [][NextMap]_vars

----------------------------------------------------------------------------
(* Properties.                                                             *)

(* C1: an ARM pipeline step fetches at PC, decodes the previous fetch,     *)
(* executes the previous decode and advances PC by 4 unless the pipeline   *)
(* is flushed; consequently the instruction fetched from address A is      *)
(* executed while R15 reads A + 8.                                         *)
C1_ExecutesWithPcEightAhead ==
    (obs.op = "pipeline_step" /\ obs.exec_from # {})
        => \A a \in obs.exec_from : obs.exec_pc = wrapping_add(a, 8)

(* C2: whenever an exception e is taken (raised directly, or by SWI or an  *)
(* undefined instruction), PC is 4 * index(e) on return and the pipeline   *)
(* is flushed, so that nothing fetched before the exception executes after *)
(* it.                                                                     *)
C2_ExceptionEntersVectorFlushed ==
    (obs.taken # "None" /\ ret = Ok)
        => /\ cpu.gpr[PC] = 4 * ExceptionIndex(obs.taken)
           /\ cpu.fetched_arm = NOP_RAW
           /\ cpu.decoded_arm = nop
           /\ cpu.fetched_thumb = THUMB_NOP_RAW
           /\ cpu.decoded_thumb = thumb_nop

(* C3: after exception(e), from any state, CPSR holds e's target mode      *)
(* (Reset, SWI, AddressExceeds26Bit: Supervisor; Undefined: Undefined;     *)
(* Prefetch and Data Abort: Abort; IRQ: IRQ; FIQ: FIQ), T = 0, I = 1,      *)
(* F = 1 for Reset and FIQ and otherwise as before, and the target mode's  *)
(* SPSR holds the CPSR from before the call.                               *)
C3_ExceptionEntryPsr ==
    obs.op = "exception" =>
        LET e == obs.ex
            old == obs.pre.cpsr
            target == CASE e \in {"Reset", "SoftwareInterrupt", "AddressExceeds26Bit"}
                             -> "Supervisor"
                        [] e = "UndefinedInstruction" -> "Undefined"
                        [] e \in {"PrefetchAbort", "DataAbort"} -> "Abort"
                        [] e = "NormalInterrupt" -> "IRQ"
                        [] e = "FastInterrupt" -> "FIQ"
        IN  /\ PSR_mode(cpu.cpsr) = target
            /\ Bit(cpu.cpsr, 5) = 0
            /\ Bit(cpu.cpsr, 7) = 1
            /\ Bit(cpu.cpsr, 6) = IF e \in {"Reset", "FastInterrupt"} THEN 1 ELSE Bit(old, 6)
            /\ cpu.spsr[ModeIndex(target)] = old

(* an IRQ taken from a state with T = 1 and F = 0 *)
C3_Witness ==
    /\ obs.op = "exception"
    /\ obs.ex = "NormalInterrupt"
    /\ Bit(obs.pre.cpsr, 5) = 1
    /\ Bit(obs.pre.cpsr, 6) = 0
    /\ Bit(cpu.cpsr, 6) = 0

(* C4: for non-FIQ modes A and B, switching A -> B -> A restores R8-R14    *)
(* exactly, and R8-R12 are never permuted by such switches.                *)
C4_RoundTripRestoresBanks ==
    LET A == obs.prev.mode
        B == obs.pre.mode
    IN  ( /\ obs.prev.op = "execute_arm_state" /\ obs.prev.inst.op = "MSR_Reg"
          /\ obs.op = "execute_arm_state" /\ obs.inst.op = "MSR_Reg"
          /\ ret = Ok
          /\ A # "FIQ" /\ B # "FIQ" /\ A # B /\ cpu.mode = A )
            => \A i \in 8..14 : cpu.gpr[i] = obs.prev.gpr[i]

(* C5: an FIQ raised in a non-FIQ mode loads R8-R12 from the FIQ bank, and *)
(* the exception return that follows (a flag-setting data-processing       *)
(* instruction with Rd = PC, or LDM with the force bit and PC in the list) *)
(* brings back the values R8-R12 had before the FIQ.                       *)
C5_FiqReturnRestoresR8R12 ==
    /\ (obs.op = "exception" /\ obs.ex = "FastInterrupt" /\ obs.pre.mode # "FIQ")
          => \A i \in 0..4 : cpu.gpr[i + 8] = obs.pre.gpr_r8_r12_fiq[i]
    /\ ( /\ obs.prev.op = "exception" /\ obs.prev.ex = "FastInterrupt"
         /\ obs.prev.mode # "FIQ"
         /\ obs.op = "execute_arm_state" /\ ret = Ok
         /\ condition(obs.inst) = 14
         /\ \/ ( /\ obs.inst.op = "DataProcessing" /\ is_setting_flags(obs.inst)
                 /\ Rd(obs.inst) = PC )
            \/ ( /\ obs.inst.op = "LDM_STM" /\ is_load(obs.inst)
                 /\ is_enforcing_user_mode(obs.inst) /\ Bit(obs.inst.raw, 15) = 1 ) )
          => \A i \in 8..12 : cpu.gpr[i] = obs.prev.gpr[i]

(* C6: User and System mode share one R13/R14 pair: a switch between the   *)
(* two, in either direction, leaves R13 and R14 as they were.              *)
C6_UserSystemShareR13R14 ==
    ( /\ obs.op = "execute_arm_state" /\ ret = Ok
      /\ {obs.pre.mode, cpu.mode} = {"User", "System"} )
        => /\ cpu.gpr[13] = obs.pre.gpr[13]
           /\ cpu.gpr[14] = obs.pre.gpr[14]

(* C7: a word read at address a returns the little-endian word stored at   *)
(* a & ~3 rotated right by 8 * (a & 3) bits.                               *)
C7_UnalignedWordReadRotates ==
    (fin.fn = "load_word" /\ ret = Ok) =>
        LET a == fin.addr
            base == a - (a % 4)
            B(k) == load_byte(cpu.bus, base + k).v
            w == Mk32(B(2) + 256 * B(3), B(0) + 256 * B(1))
        IN  fout = rotate_right(w, 8 * (a % 4))

(* C8: the subtract primitive returns a - b modulo 2^32 with carry 1       *)
(* exactly when no borrow occurred (a >= b as unsigned numbers), so the C  *)
(* flag after SUBS and CMP is set exactly when op1 >= op2 unsigned.        *)
C8_SubCarryIsNoBorrow ==
    fin.fn \in {"alu_sub_carry_overflow", "alu_data_processing_flags"} =>
        LET a == fin.a
            b == fin.b
            geu == IF (a < 0) = (b < 0) THEN a >= b ELSE a < 0
        IN  /\ fout.v = wrapping_sub(a, b)
            /\ fout.c = geu

(* C9: the condition evaluator returns the standard ARM table for the 15   *)
(* defined codes under all 16 flag combinations, and the reserved-         *)
(* condition error for NV.                                                 *)
C9_ConditionTable ==
    fin.fn = "check" =>
        LET n == (fin.flags \div 8) % 2 = 1
            z == (fin.flags \div 4) % 2 = 1
            c == (fin.flags \div 2) % 2 = 1
            v == fin.flags % 2 = 1
            table == << z, ~z, c, ~c, n, ~n, v, ~v, c /\ ~z, ~c \/ z,
                        n = v, n # v, ~z /\ (n = v), z \/ (n # v), TRUE >>
        IN  IF fin.cond = 15
            THEN fout.r.err = "ReservedArmConditionNV"
            ELSE fout.r = Ok /\ fout.v = table[fin.cond + 1]

(* HI evaluated with C = 1 and Z = 1 *)
C9_Witness ==
    /\ fin.fn = "check"
    /\ fin.cond = 8
    /\ fin.flags = 6
    /\ fout.v = FALSE

(* C10 as stated: after reset(), every general-purpose register R0-R15 is  *)
(* zero and CPSR is Supervisor mode with I = 1, F = 1, T = 0.              *)
C10_ResetZeroesAllRegisters ==
    obs.op = "reset" =>
        /\ \A i \in 0..15 : cpu.gpr[i] = 0
        /\ PSR_mode(cpu.cpsr) = "Supervisor"
        /\ Bit(cpu.cpsr, 7) = 1 /\ Bit(cpu.cpsr, 6) = 1 /\ Bit(cpu.cpsr, 5) = 0

(* C10: after reset(), PC (R15) is zero and CPSR is Supervisor mode with   *)
(* I = 1, F = 1, T = 0; R0-R14 keep the values they had before the reset.  *)
C10_ResetSetsPcAndCpsr ==
    obs.op = "reset" =>
        /\ cpu.gpr[PC] = 0
        /\ \A i \in 0..14 : cpu.gpr[i] = obs.pre.gpr[i]
        /\ PSR_mode(cpu.cpsr) = "Supervisor"
        /\ Bit(cpu.cpsr, 7) = 1 /\ Bit(cpu.cpsr, 6) = 1 /\ Bit(cpu.cpsr, 5) = 0

(* a reset of a CPU whose PC and R0 were both non-zero *)
C10_Witness ==
    /\ obs.op = "reset"
    /\ obs.pre.gpr[PC] # 0
    /\ obs.pre.gpr[0] # 0
    /\ cpu.gpr[0] # 0

(* C11: after reset() the pipeline is flushed: both decoded slots and both *)
(* fetched latches hold the pseudo-NOP, so nothing latched before the      *)
(* reset is executed after it.                                             *)
C11_ResetFlushesPipeline ==
    obs.op = "reset" =>
        /\ cpu.fetched_arm = NOP_RAW
        /\ cpu.decoded_arm = nop
        /\ cpu.fetched_thumb = THUMB_NOP_RAW
        /\ cpu.decoded_thumb = thumb_nop

(* C12: a bus access whose width the address map lists as legal for the    *)
(* addressed region (work RAM, I/O, palette, VRAM and OAM in their widths, *)
(* reads of BIOS and the GamePak ROM mirrors, byte accesses to SRAM) is    *)
(* forwarded to the region's store at offset addr - base and returns       *)
(* without an error and without aborting.                                  *)
C12_LegalAccessesForwarded ==
    LET a == fin.addr
        write == fin.fn \in {"store_word", "store_halfword", "store_byte"}
        byte == fin.fn \in {"load_byte", "store_byte"}
        In(base, len) == base <= a /\ a - base < len
        legal == \/ In(\h00000000, 16384) /\ ~write
                 \/ In(\h02000000, 262144)
                 \/ In(\h03000000, 32768)
                 \/ In(\h04000000, 1024)
                 \/ In(\h05000000, 1024) /\ ~byte
                 \/ In(\h06000000, 98304) /\ ~byte
                 \/ In(\h07000000, 1024) /\ ~byte
                 \/ In(\h08000000, \h06000000) /\ ~write
                 \/ In(\h0E000000, 65536) /\ byte
    IN  ( /\ fin.fn \in {"load_word", "load_halfword", "load_byte",
                         "store_word", "store_halfword", "store_byte"}
          /\ legal )
            => /\ ret = Ok
               /\ (fin.fn = "load_byte" /\ In(\h00000000, 16384))
                     => fout = ByteAt(cpu.bus.bios_rom, a)
               /\ (fin.fn = "load_byte" /\ In(\h04000000, 1024))
                     => fout = ByteAt(cpu.bus.ioregs, a - \h04000000)
               /\ (fin.fn = "load_byte" /\ In(\h0E000000, 65536))
                     => fout = ByteAt(cpu.bus.sram, a - \h0E000000)

(* C13: a write of any width to an address in a ROM region (BIOS ROM or a  *)
(* GamePak ROM mirror) is rejected with InvalidRomAccess carrying the      *)
(* accessed address, and leaves memory unchanged.                         *)
C13_RomWritesRejected ==
    LET a == fin.addr
        rom == \/ (\h00000000 <= a /\ a <= \h00003FFF)
               \/ (\h08000000 <= a /\ a <= \h0DFFFFFF)
    IN  (fin.fn \in {"store_word", "store_halfword", "store_byte"} /\ rom)
            => /\ ret = Err("InvalidRomAccess", a, 0)
               /\ cpu.bus = fin.bus

(* C14: a 16-bit or 32-bit read or write at an address a inside GamePak    *)
(* SRAM is rejected with InvalidMemoryBusWidth(a, width), a being the      *)
(* address passed to the bus, and changes no memory.                       *)
C14_SramWideAccessRejected ==
    LET a == fin.addr
        width == IF fin.fn \in {"load_word", "store_word"} THEN 32 ELSE 16
    IN  ( /\ fin.fn \in {"load_word", "store_word", "load_halfword", "store_halfword"}
          /\ \h0E000000 <= a /\ a <= \h0E00FFFF )
            => /\ ret = Err("InvalidMemoryBusWidth", a, width)
               /\ cpu.bus = fin.bus

(* C15: the classifier maps an address a to region R with offset           *)
(* a - base(R) exactly when base(R) <= a < base(R) + length(R) for the     *)
(* address-map table (the I/O registers being the full 1 KiB               *)
(* 04000000..040003FF), and every other address to Invalid carrying a.     *)
C15_ClassifierFollowsAddressMap ==
    LET a == fin.addr
        table == { << "BiosROM", \h00000000, 16384 >>,
                   << "OnBoardWRAM", \h02000000, 262144 >>,
                   << "OnChipWRAM", \h03000000, 32768 >>,
                   << "RegistersIO", \h04000000, 1024 >>,
                   << "PaletteRAM", \h05000000, 1024 >>,
                   << "VRAM", \h06000000, 98304 >>,
                   << "AttributesOBJ", \h07000000, 1024 >>,
                   << "GamePak0ROM", \h08000000, \h02000000 >>,
                   << "GamePak1ROM", \h0A000000, \h02000000 >>,
                   << "GamePak2ROM", \h0C000000, \h02000000 >>,
                   << "GamePakSRAM", \h0E000000, 65536 >> }
        Holds(row) == row[2] <= a /\ a - row[2] < row[3]
    IN  fin.fn = "from_u32" =>
            /\ \A row \in table : Holds(row) <=> fout.tag = row[1]
            /\ \A row \in table : Holds(row) => fout.p = a - row[2]
            /\ (\A row \in table : ~Holds(row)) => fout = PA("Invalid", a)


(* C16: a register operand shifted by an immediate amount encoded as 0:    *)
(* LSL #0 returns Rm with the carry unchanged; LSR #0 returns 0 with       *)
(* carry = bit 31 of Rm; ASR #0 returns bit 31 of Rm replicated with       *)
(* carry = bit 31 of Rm; ROR #0 returns (carry_in << 31) | (Rm >> 1) with  *)
(* carry = bit 0 of Rm; in the decoder's shift-field interpreter and in    *)
(* the barrel shifter alike.                                               *)
C16_ImmediateShiftByZero ==
    (/\ fin.fn \in {"alu_barrel_shifter_carry", "calculate_shifted_register_with_carry"}
     /\ fin.by = "imm" /\ fin.amt = 0) =>
        /\ ret = Ok
        /\ fin.op = 0 => fout = [v |-> fin.a, c |-> fin.carry]
        /\ fin.op = 1 => fout = [v |-> 0, c |-> fin.a < 0]
        /\ fin.op = 2 => fout = [v |-> IF fin.a < 0 THEN -1 ELSE 0, c |-> fin.a < 0]
        /\ fin.op = 3 => fout = [v |-> FromBits([i \in 0..31 |->
                                          IF i = 31 THEN B2I(fin.carry) ELSE Bit(fin.a, i + 1)]),
                                 c |-> fin.a % 2 = 1]


(* C17: the decoder classifies every word as the first family whose fixed  *)
(* bit pattern it matches, the families being tested in the order BX,      *)
(* B/BL, Unknown, SWP, MUL/MLA, multiply long, MRS, MSR-reg, MSR-flags,    *)
(* LDR/STR, LDRH/STRH register offset, LDRH/STRH immediate offset,         *)
(* LDM/STM, SWI, CDP, MRC/MCR, LDC/STC, data processing; a word matching   *)
(* none is rejected with InvalidArmInstruction.                            *)
C17_DecodeFirstMatchingFamily ==
    LET families == << << "BX", \h0FFFFFF0, \h012FFF10 >>,
                       << "B_BL", \h0E000000, \h0A000000 >>,
                       << "Unknown", \h0E000010, \h06000010 >>,
                       << "SWP", \h0FB00FF0, \h01000090 >>,
                       << "MUL_MLA", \h0FC000F0, \h00000090 >>,
                       << "MULL_MLAL", \h0F8000F0, \h00800090 >>,
                       << "MRS", \h0FBF0FFF, \h010F0000 >>,
                       << "MSR_Reg", \h0FBFFFF0, \h0129F000 >>,
                       << "MSR_Flags", \h0DBFF000, \h0128F000 >>,
                       << "LDR_STR", \h0C000000, \h04000000 >>,
                       << "LDRH_STRH_Reg", \h0E400F90, \h00000090 >>,
                       << "LDRH_STRH_Imm", \h0E400090, \h00400090 >>,
                       << "LDM_STM", \h0E000000, \h08000000 >>,
                       << "SWI", \h0F000000, \h0F000000 >>,
                       << "CDP", \h0F000010, \h0E000000 >>,
                       << "MRC_MCR", \h0F000010, \h0E000010 >>,
                       << "LDC_STC", \h0E000000, \h0C000000 >>,
                       << "DataProcessing", \h0C000000, \h00000000 >> >>
        Matches(k) == \A b \in 0..31 :
                          Bit(families[k][2], b) = 1 => Bit(fin.raw, b) = Bit(families[k][3], b)
        First(k) == Matches(k) /\ \A j \in 1..(k - 1) : ~Matches(j)
    IN  fin.fn = "decode" =>
            /\ \A k \in 1..18 : First(k) => ret = Ok /\ fout = [raw |-> fin.raw, op |-> families[k][1]]
            /\ (\A k \in 1..18 : ~Matches(k)) => ret = Err("InvalidArmInstruction", fin.raw, 0)

(* an MRS word, which also has the data-processing pattern, was decoded    *)
C17_Witness ==
    /\ fin.fn = "decode" /\ fin.raw = Mk32(\hE10F, \h1000)
    /\ fout.op = "MRS"


(* C18: check_is_valid returns InvalidRegisterReuse for every MUL or MLA   *)
(* whose destination register, the one execute_mul_mla writes the product  *)
(* to (bits 19..16), is the same register as Rm (bits 3..0); a word that   *)
(* also names R15 may be rejected with InvalidUseOfR15 first.              *)
C18_MulDestinationNotRm ==
    LET dest == Bits(fin.raw, 16, 4)
        regs == { Bits(fin.raw, 16, 4), Bits(fin.raw, 12, 4), Bits(fin.raw, 8, 4), Bits(fin.raw, 0, 4) }
    IN  (fin.fn = "check_is_valid" /\ fout.op = "MUL_MLA" /\ dest = Bits(fin.raw, 0, 4)) =>
            IF 15 \in regs THEN ret.err \in {"InvalidUseOfR15", "InvalidRegisterReuse"}
            ELSE ret.err = "InvalidRegisterReuse"


(* C19: check_is_valid returns InvalidUseOfR15 for every MUL, MLA, MULL,   *)
(* MLAL or SWP that names R15 in any of its register fields and for every  *)
(* LDM/STM whose base register is R15, whatever the other bits are.        *)
C19_R15Rejected ==
    LET n == Bits(fin.raw, 16, 4)
        d == Bits(fin.raw, 12, 4)
        s == Bits(fin.raw, 8, 4)
        m == Bits(fin.raw, 0, 4)
    IN  (/\ fin.fn = "check_is_valid"
         /\ \/ fout.op \in {"MUL_MLA", "MULL_MLAL"} /\ 15 \in {n, d, s, m}
            \/ fout.op = "SWP" /\ 15 \in {n, d, m}
            \/ fout.op = "LDM_STM" /\ n = 15) =>
            ret = Err("InvalidUseOfR15", 0, 0)


(* C20: reading the mode of a PSR whose bits 4..0 are not one of the seven *)
(* legal patterns reports the recoverable error InvalidPsrMode and never   *)
(* aborts, including when an MSR wrote the illegal pattern into CPSR.      *)
C20_IllegalModeIsRecoverable ==
    LET legal == { \b10000, \b10001, \b10010, \b10011, \b10111, \b11011, \b11111 }
    IN  (/\ obs.op = "execute_arm_state"
         /\ obs.inst.op = "MSR_Reg" /\ Bit(obs.inst.raw, 22) = 0
         /\ obs.pre.mode # "User"
         /\ (obs.pre.gpr[Bits(obs.inst.raw, 0, 4)] % 32) \notin legal) =>
            ret.err = "InvalidPsrMode"


(* C21: no MSR changes bits 27..8 of any PSR: after a flag-only MSR only   *)
(* bits 31..28 of the target PSR may differ from before, after a full MSR  *)
(* only bits 31..28 and 7..0 of the target PSR may differ, and the PSR     *)
(* that is not the target (CPSR, or the SPSR of the mode the instruction   *)
(* ran in) is unchanged.                                                   *)
C21_MsrPreservesReservedBits ==
    LET pre == obs.pre
        M == ModeIndex(pre.mode)
        to_spsr == Bit(obs.inst.raw, 22) = 1
        Reserved(p) == Bits(p, 8, 20)
        Low(p) == p % 256
    IN  (obs.op = "execute_arm_state" /\ obs.inst.op \in {"MSR_Reg", "MSR_Flags"} /\ ret = Ok) =>
            /\ Reserved(cpu.cpsr) = Reserved(pre.cpsr)
            /\ \A i \in 0..6 : Reserved(cpu.spsr[i]) = Reserved(pre.spsr[i])
            /\ obs.inst.op = "MSR_Flags" =>
                  /\ Low(cpu.cpsr) = Low(pre.cpsr)
                  /\ Low(cpu.spsr[M]) = Low(pre.spsr[M])
            /\ IF to_spsr THEN cpu.cpsr = pre.cpsr ELSE cpu.spsr[M] = pre.spsr[M]


(* C22: in THUMB state a step fetches the halfword at PC, decodes the      *)
(* previously fetched halfword, executes the previously decoded THUMB      *)
(* instruction and advances PC by 2 unless a flush was requested; it       *)
(* returns Ok or a GbaError and never aborts.                              *)
C22_ThumbStepRuns ==
    (obs.op = "pipeline_step" /\ obs.pre.state = "THUMB" /\ obs.pre.delay_cycles = 0) =>
        /\ ret.err # "Panic"
        /\ ret = Ok =>
              /\ cpu.fetched_thumb \in {load_halfword(obs.pre.bus, obs.pre.gpr[PC]).v, THUMB_NOP_RAW}
              /\ cpu.decoded_thumb.raw \in {obs.pre.fetched_thumb, THUMB_NOP_RAW}
              /\ cpu.gpr[PC] = wrapping_add(obs.pre.gpr[PC], 2) \/ cpu.fetched_thumb = THUMB_NOP_RAW


(* C23: executing a co-processor instruction (CDP, MRC/MCR, LDC/STC) whose *)
(* condition passes raises the Undefined-Instruction exception: afterwards *)
(* the CPU is in Undefined mode at the vector 0x04, and the step neither   *)
(* aborts nor returns an error.                                            *)
C23_CoprocessorIsUndefined ==
    (/\ obs.op = "pipeline_step" /\ obs.pre.state = "ARM" /\ obs.pre.delay_cycles = 0
     /\ obs.inst.op \in {"CDP", "MRC_MCR", "LDC_STC"}
     /\ check(condition(obs.inst), obs.pre.cpsr).v) =>
        /\ ret = Ok
        /\ cpu.mode = "Undefined" /\ PSR_mode(cpu.cpsr) = "Undefined"
        /\ cpu.gpr[PC] = \h04


(* C24: after a B, BL or BX whose condition passes, the two words in the   *)
(* fetch and decode stages are never executed; the next instruction        *)
(* executed is the one at the branch target, which is PC + offset for      *)
(* B/BL (with LR = PC - 4 on BL) and Rm & ~1 for BX, PC being the address  *)
(* of the branch + 8.                                                      *)
C24_BranchReachesTarget ==
    /\ (obs.op = "pipeline_step" /\ obs.exec_from # {} /\ obs.due # {}) =>
           obs.exec_from = obs.due
    /\ (/\ obs.op = "pipeline_step" /\ ret = Ok /\ obs.exec_from # {}
        /\ obs.inst.op \in {"BX", "B_BL"}
        /\ check(condition(obs.inst), obs.pre.cpsr).v) =>
           /\ {cpu.gpr[PC]} = obs.branch_to
           /\ cpu.fetched_arm = NOP_RAW /\ cpu.decoded_arm = nop
           /\ (obs.inst.op = "B_BL" /\ Bit(obs.inst.raw, 24) = 1) =>
                 \A a \in obs.exec_from : cpu.gpr[14] = (a + 8) - 4

(* the instruction at the target of a B or BL was the next one executed    *)
C24_Witness ==
    /\ obs.op = "pipeline_step" /\ ret = Ok
    /\ obs.due = {16} /\ obs.exec_from = {16}
    /\ obs.inst = [raw |-> MOV_imm(4, 4), op |-> "DataProcessing"]
    /\ cpu.gpr[4] = 4 /\ cpu.gpr[1] = 0 /\ cpu.gpr[2] = 0


(* the instruction at the target of a backward B was the next one executed *)
C24_WitnessBackward ==
    /\ obs.op = "pipeline_step" /\ ret = Ok
    /\ obs.due = {4} /\ obs.exec_from = {4}
    /\ cpu.gpr[1] = 1 /\ cpu.gpr[2] = 0


(* C25: whenever an executed instruction writes R15 by a load (LDR with    *)
(* Rd = PC, or LDM with PC in the register list), the pipeline is flushed  *)
(* and PC is not additionally advanced, so the next instruction executed   *)
(* is the one at the loaded address.  Stated for LDR PC, [Rn, #imm] and    *)
(* LDMIA Rn, {.., PC}.                                                     *)
C25_LoadToPcFlushes ==
    LET inst == obs.inst
        pre == obs.pre
        rn == pre.gpr[Bits(inst.raw, 16, 4)]
        ldr == /\ inst.op = "LDR_STR" /\ Bits(inst.raw, 20, 1) = 1 /\ Bits(inst.raw, 12, 4) = 15
               /\ Bits(inst.raw, 22, 4) = \b0110
        ldm == /\ inst.op = "LDM_STM" /\ Bits(inst.raw, 20, 1) = 1 /\ Bits(inst.raw, 15, 1) = 1
               /\ Bits(inst.raw, 22, 4) = \b0010
        at == IF ldr THEN rn + (inst.raw % 4096)
              ELSE rn + 4 * (count_ones(inst.raw % 65536) - 1)
    IN  (/\ obs.op = "pipeline_step" /\ ret = Ok /\ obs.exec_from # {}
         /\ check(condition(inst), pre.cpsr).v
         /\ ldr \/ ldm) =>
            /\ cpu.fetched_arm = NOP_RAW /\ cpu.decoded_arm = nop
            /\ cpu.gpr[PC] = LittleEndian_read_u32(pre.bus.bios_rom, at)


(* C26: an LDM with the user-mode-force bit set that loads PC, executed in *)
(* a privileged mode M with an SPSR, overwrites CPSR with SPSR_M (flags,   *)
(* I/F masks, T and mode bits) and makes the mode saved in SPSR_M the      *)
(* active mode.                                                            *)
C26_LdmPcRestoresCpsr ==
    LET inst == obs.inst
        M == ModeIndex(obs.pre.mode)
    IN  (/\ obs.op = "execute_arm_state" /\ ret = Ok
         /\ inst.op = "LDM_STM" /\ Bit(inst.raw, 20) = 1 /\ Bit(inst.raw, 22) = 1
         /\ Bit(inst.raw, 15) = 1
         /\ check(condition(inst), obs.pre.cpsr).v
         /\ obs.pre.mode \notin {"User", "System"}) =>
            /\ cpu.cpsr = obs.pre.spsr[M]
            /\ cpu.mode = PSR_mode(obs.pre.spsr[M])
            /\ cpu.state = PSR_state(obs.pre.spsr[M])


(* C27: after any sequence of construction, reset, raise_exception and     *)
(* step calls that return without error, the CPU's mode field equals the   *)
(* mode encoded in CPSR bits 4..0 and its state field equals CPSR bit T.   *)
C27_ModeFieldMatchesCpsr ==
    ret = Ok =>
        /\ cpu.mode = PSR_mode(cpu.cpsr)
        /\ cpu.state = PSR_state(cpu.cpsr)


(* C28: after an MSR (register form) to SPSR executed in a privileged      *)
(* mode M, bits 31..28 and 7..0 of SPSR_M equal the corresponding bits of  *)
(* the operand register, and CPSR is unchanged.                            *)
C28_MsrWritesSpsr ==
    LET inst == obs.inst
        M == ModeIndex(obs.pre.mode)
        rm == obs.pre.gpr[Bits(inst.raw, 0, 4)]
    IN  (/\ obs.op = "execute_arm_state" /\ ret = Ok
         /\ inst.op = "MSR_Reg" /\ Bit(inst.raw, 22) = 1
         /\ check(condition(inst), obs.pre.cpsr).v
         /\ obs.pre.mode \notin {"User", "System"}) =>
            /\ Bits(cpu.spsr[M], 28, 4) = Bits(rm, 28, 4)
            /\ cpu.spsr[M] % 256 = rm % 256
            /\ cpu.cpsr = obs.pre.cpsr


(* C29: an MSR that leaves the CPSR mode field unchanged (any MSR to SPSR, *)
(* any flag-only MSR, any MSR to CPSR whose new mode bits equal the old    *)
(* ones) modifies no general-purpose register, in particular not R14, and  *)
(* no banked register copy.                                                *)
C29_MsrKeepsRegisters ==
    (/\ obs.op = "execute_arm_state" /\ ret = Ok
     /\ obs.inst.op \in {"MSR_Reg", "MSR_Flags"}
     /\ cpu.cpsr % 32 = obs.pre.cpsr % 32) =>
        /\ cpu.gpr = obs.pre.gpr
        /\ cpu.gpr_r13_all = obs.pre.gpr_r13_all
        /\ cpu.gpr_r14_all = obs.pre.gpr_r14_all
        /\ cpu.gpr_r8_r12_fiq = obs.pre.gpr_r8_r12_fiq
        /\ cpu.gpr_r8_r12_other = obs.pre.gpr_r8_r12_other


(* C30: LDM/STM transfers the listed registers in ascending register       *)
(* number to ascending word addresses: with n listed registers and base b  *)
(* the addresses are b .. b+4(n-1) (post-increment), b+4 .. b+4n           *)
(* (pre-increment), b-4(n-1) .. b (post-decrement) and b-4n .. b-4         *)
(* (pre-decrement), and with write-back Rn becomes b+4n (up) or b-4n       *)
(* (down).                                                                 *)
C30_BlockTransferAddresses ==
    LET inst == obs.inst
        pre == obs.pre
        P == Bit(inst.raw, 24) = 1
        U == Bit(inst.raw, 23) = 1
        W == Bit(inst.raw, 21) = 1
        L == Bit(inst.raw, 20) = 1
        rn == Bits(inst.raw, 16, 4)
        b == pre.gpr[rn]
        listed == { i \in 0..15 : Bit(inst.raw, i) = 1 }
        n == Cardinality(listed)
        first == IF U THEN (IF P THEN b + 4 ELSE b)
                 ELSE (IF P THEN b - 4 * n ELSE b - 4 * (n - 1))
        A(i) == first + 4 * Cardinality({ j \in listed : j < i })
        after == IF U THEN b + 4 * n ELSE b - 4 * n
        Word(bus, a) == LittleEndian_read_u32(bus.ioregs, a - \h04000000)
    IN  (obs.op = "execute_arm_state" /\ inst.op = "LDM_STM") =>
            /\ ret = Ok
            /\ W => cpu.gpr[rn] = after
            /\ L => \A i \in listed \ {rn} : cpu.gpr[i] = Word(pre.bus, A(i))
            /\ ~L => \A i \in listed \ {rn} : Word(cpu.bus, A(i)) = pre.gpr[i]

----------------------------------------------------------------------------
(* Block transfers with the user-mode-force bit, executed after an         *)
(* exception has put the CPU into a mode with banked registers.            *)

MaxUserBankOps == 2

(* {R1,R12}, {R8,R13,R14}, {R0,R5,R7}, {R9,R11} *)
UserBankLists == { \h1002, \h6100, \h00A1, \h0A00 }

UserBankWords == { LDM_STM_word(p, u, 1, 0, l, 0, list) :
                      p \in 0..1, u \in 0..1, l \in 0..1, list \in UserBankLists }

InitUserBank == InitLdm

NextUserBank ==
    /\ nops < MaxUserBankOps
    /\ \/ \E w \in UserBankWords : ExecuteArmState(w)
       \/ \E ex \in {"FastInterrupt", "NormalInterrupt"} : RaiseException(ex)

SpecUserBank == InitUserBank /\ [][NextUserBank]_vars

(* the User-mode copy of register i of CPU c, i in 0..14 *)
UserCopy(c, i) ==
    IF i \in 8..12 /\ c.mode = "FIQ" THEN c.gpr_r8_r12_other[i - 8]
    ELSE IF i = 13 /\ c.mode \notin {"User", "System"} THEN c.gpr_r13_all[ModeIndex("User")]
    ELSE IF i = 14 /\ c.mode \notin {"User", "System"} THEN c.gpr_r14_all[ModeIndex("User")]
    ELSE c.gpr[i]

(* C31: an LDM/STM with the user-mode-force bit that does not load PC, in  *)
(* a privileged mode, transfers every listed register to or from           *)
(* consecutive word addresses; a listed register among R8-R14 is the       *)
(* User-mode copy, and the current mode's own banked copies keep their     *)
(* values.                                                                 *)
C31_UserBankTransfer ==
    LET inst == obs.inst
        pre == obs.pre
        P == Bit(inst.raw, 24) = 1
        U == Bit(inst.raw, 23) = 1
        L == Bit(inst.raw, 20) = 1
        rn == Bits(inst.raw, 16, 4)
        b == pre.gpr[rn]
        listed == { i \in 0..15 : Bit(inst.raw, i) = 1 }
        n == Cardinality(listed)
        first == IF U THEN (IF P THEN b + 4 ELSE b)
                 ELSE (IF P THEN b - 4 * n ELSE b - 4 * (n - 1))
        A(i) == first + 4 * Cardinality({ j \in listed : j < i })
        Word(bus, a) == LittleEndian_read_u32(bus.ioregs, a - \h04000000)
        own == (IF pre.mode = "FIQ" THEN 8..12 ELSE {})
               \cup (IF pre.mode \notin {"User", "System"} THEN {13, 14} ELSE {})
    IN  (/\ obs.op = "execute_arm_state"
         /\ inst.op = "LDM_STM"
         /\ is_enforcing_user_mode(inst)
         /\ ~(L /\ 15 \in listed)
         /\ pre.mode # "User") =>
            /\ ret = Ok
            /\ L => \A i \in listed : UserCopy(cpu, i) = Word(pre.bus, A(i))
            /\ ~L => \A i \in listed : Word(cpu.bus, A(i)) = UserCopy(pre, i)
            /\ \A i \in own : cpu.gpr[i] = pre.gpr[i]

----------------------------------------------------------------------------
(* Rotated immediates: the shift-field interpreter applied to a            *)
(* flag-setting logical instruction with an immediate operand, and the     *)
(* instruction executed, with a chosen carry-in.                           *)

MaxImmOps == 1

ImmBytes == { 0, 1, \h80, \hFF }

(* AND, TST, ORR, MOV, MVN *)
ImmOpcodes == { 0, 8, 12, 13, 15 }

(* <op>S R0, R1, #byte ROR 2*rot *)
DPS_imm(op, rot, byte) == Mk32(\hE200 + op * 32 + 16 + 1, rot * 256 + byte)

InitImm ==
    /\ \E byte \in ImmBytes : \E rot \in 0..15 : \E op \in ImmOpcodes : \E carry \in BOOLEAN :
          /\ cpu = [new(BusWith(<< >>)) EXCEPT
                        !.gpr = [i \in 0..15 |-> IF i = 1 THEN WORD_DDCCBBAA ELSE 0],
                        !.cpsr = SetBit(PSR_default, C_FLAG_BIT, B2I(carry))]
          /\ fin = [fn |-> "none", op |-> op, rot |-> rot, byte |-> byte, carry |-> carry]
    /\ ret = Ok
    /\ obs = ObsInit(cpu)
    /\ nops = 0
    /\ fout = [v |-> 0, c |-> FALSE]
    /\ overflow_checks \in BOOLEAN

CalculateShftFieldWithCarry ==
    /\ fin.fn = "none"
    /\ \E x \in {calculate_shft_field_with_carry(
                    decode(DPS_imm(fin.op, fin.rot, fin.byte)).i,
                    cpu.gpr, PSR_C(cpu.cpsr))} :
          /\ fout' = [v |-> x.v, c |-> x.c]
          /\ ret' = x.r
    /\ fin' = [fin EXCEPT !.fn = "calculate_shft_field_with_carry"]
    /\ nops' = nops + 1
    /\ UNCHANGED << cpu, obs, overflow_checks >>

NextImm ==
    /\ nops < MaxImmOps
    /\ \/ CalculateShftFieldWithCarry
       \/ ExecuteArmState(DPS_imm(fin.op, fin.rot, fin.byte))

SpecImm == InitImm /\ [][NextImm]_vars

(* C32: for a rotated-immediate operand the shift-field interpreter        *)
(* returns rotate_right(byte, 2 * rot) with carry_out = the old carry when *)
(* rot = 0 and bit 31 of the value otherwise; a flag-setting logical       *)
(* instruction with an unrotated immediate leaves the C flag unchanged.    *)
C32_RotatedImmediateCarry ==
    LET value == rotate_right(fin.byte, 2 * fin.rot)
    IN  /\ fin.fn = "calculate_shft_field_with_carry" =>
            /\ ret = Ok
            /\ fout.v = value
            /\ fout.c = (IF fin.rot = 0 THEN fin.carry ELSE value < 0)
        /\ (obs.op = "execute_arm_state" /\ fin.rot = 0) =>
            /\ ret = Ok
            /\ PSR_C(cpu.cpsr) = PSR_C(obs.pre.cpsr)

(* C33: a register operand shifted by the amount n = Rs & 0xFF: n = 0      *)
(* returns Rm with the carry unchanged; LSL by 32 returns 0 with carry =   *)
(* bit 0 of Rm and LSR by 32 returns 0 with carry = bit 31; LSL or LSR by  *)
(* more than 32 returns 0 with carry 0; ASR by 32 or more returns bit 31   *)
(* replicated with carry = bit 31; ROR by n >= 32 is ROR by n mod 32, a    *)
(* remainder of 0 returning Rm with carry = bit 31; and the computation is *)
(* defined for every n.                                                    *)
C33_RegisterShiftAmount ==
    LET a == fin.a
        n == fin.amt % 256
        m == n % 32
        bit31 == a < 0
        sign == IF a < 0 THEN -1 ELSE 0
        expected ==
            IF n = 0 THEN [v |-> a, c |-> fin.carry]
            ELSE CASE fin.op = 0 -> [v |-> 0, c |-> (n = 32) /\ a % 2 = 1]
                   [] fin.op = 1 -> [v |-> 0, c |-> (n = 32) /\ bit31]
                   [] fin.op = 2 -> [v |-> sign, c |-> bit31]
                   [] fin.op = 3 -> IF m = 0 THEN [v |-> a, c |-> bit31]
                                    ELSE [v |-> FromBits([i \in 0..31 |-> Bit(a, (i + m) % 32)]),
                                          c |-> Bit(a, m - 1) = 1]
    IN  (fin.by = "reg" /\ fin.fn # "none") =>
            /\ ret = Ok
            /\ (n = 0 \/ n >= 32) =>
                  /\ fout.v = expected.v
                  /\ fin.fn \in {"alu_barrel_shifter_carry",
                                 "calculate_shifted_register_with_carry"} =>
                        fout.c = expected.c

----------------------------------------------------------------------------
(* The carry-using opcodes ADC = 5, SBC = 6 and RSC = 7 through the        *)
(* flag-setting data-processing path, with a chosen carry-in.              *)

MaxAdcOps == 1

InitAdc ==
    /\ \E carry \in BOOLEAN :
          cpu = [new(BusWith(<< >>)) EXCEPT !.cpsr = SetBit(PSR_default, C_FLAG_BIT, B2I(carry))]
    /\ ret = Ok
    /\ obs = ObsInit(cpu)
    /\ nops = 0
    /\ \E a \in AluValues : \E b \in AluValues :
          fin = [fn |-> "none", a |-> a, b |-> b, op |-> 0]
    /\ fout = [v |-> 0, c |-> FALSE, o |-> FALSE]
    /\ overflow_checks \in BOOLEAN

NextAdc ==
    /\ nops < MaxAdcOps
    /\ \E op \in {5, 6, 7} : AluDataProcessingFlags(op)

SpecAdc == InitAdc /\ [][NextAdc]_vars

(* x + y + cin over 32 bits: the result, the unsigned carry-out and the    *)
(* signed overflow of the three-term sum; half the exact sum is            *)
(* x \div 2 + y \div 2 + (x % 2 + y % 2 + cin) \div 2                      *)
Sum3(x, y, cin) ==
    LET half == (x \div 2) + (y \div 2) + (((x % 2) + (y % 2) + cin) \div 2)
    IN  [v |-> AddC(x, y, cin).v,
         c |-> AddC(x, y, cin).c = 1,
         o |-> half < -(2^30) \/ half >= 2^30]

(* C34: flag-setting ADC, SBC and RSC produce op1 + op2 + C,               *)
(* op1 - op2 - (1 - C) and op2 - op1 - (1 - C) modulo 2^32; the C flag is  *)
(* the unsigned carry-out (no-borrow for the subtractions) of the complete *)
(* three-term operation and the V flag is its signed overflow.             *)
C34_CarryArithmeticFlags ==
    LET cin == B2I(PSR_C(obs.pre.cpsr))
        expected == CASE fin.op = 5 -> Sum3(fin.a, fin.b, cin)
                      [] fin.op = 6 -> Sum3(fin.a, Not32(fin.b), cin)
                      [] fin.op = 7 -> Sum3(fin.b, Not32(fin.a), cin)
                      [] OTHER -> fout
    IN  fin.fn = "alu_data_processing_flags" => fout = expected

----------------------------------------------------------------------------
(* Long multiplies: UMULL, SMULL, UMLAL and SMLAL R2, R3, R0, R1 with      *)
(* chosen operands R0 (Rm), R1 (Rs) and a chosen previous RdHi:RdLo in     *)
(* R3:R2.                                                                  *)

MaxMulOps == 1

MulOperands == { 2, -1, 2147483647, WORD_DDCCBBAA }

MulAccumulators == { 0, 1, (-2147483647) - 1 }

(* 0000 1 U A S RdHi RdLo Rs 1001 Rm *)
MULL_word(u, a, s) == Mk32(\hE080 + 64 * u + 32 * a + 16 * s + 3, \h2190)

MullWords == { MULL_word(u, a, s) : u \in 0..1, a \in 0..1, s \in 0..1 }

InitMul ==
    /\ \E rm \in MulOperands : \E rs \in MulOperands :
       \E hi \in MulAccumulators : \E lo \in MulAccumulators :
          cpu = [new(BusWith(<< >>)) EXCEPT
                    !.gpr = [i \in 0..15 |-> CASE i = 0 -> rm [] i = 1 -> rs
                                               [] i = 2 -> lo [] i = 3 -> hi
                                               [] OTHER -> 0]]
    /\ ret = Ok
    /\ obs = ObsInit(cpu)
    /\ nops = 0
    /\ fin = [fn |-> "none"]
    /\ fout = 0
    /\ overflow_checks \in BOOLEAN

NextMul ==
    /\ nops < MaxMulOps
    /\ \E w \in MullWords : ExecuteArmState(w)

SpecMul == InitMul /\ [][NextMul]_vars

(* 64-bit values as four 16-bit limbs, least significant first: a 32-bit   *)
(* word zero-extended and sign-extended, and the pair hi:lo                *)
ZeroExtended(a) == << Lo16(a), Hi16(a), 0, 0 >>

SignExtended(a) == << Lo16(a), Hi16(a), IF a < 0 THEN 65535 ELSE 0, IF a < 0 THEN 65535 ELSE 0 >>

Pair64(hi, lo) == << Lo16(lo), Hi16(lo), Lo16(hi), Hi16(hi) >>

(* the full product of Rm and Rs that the long multiply obs.inst asks for  *)
LongProduct ==
    LET rm == obs.pre.gpr[Rm(obs.inst)]
        rs == obs.pre.gpr[Rs(obs.inst)]
    IN  IF is_signed(obs.inst) THEN u64_wrapping_mul(SignExtended(rm), SignExtended(rs))
        ELSE u64_wrapping_mul(ZeroExtended(rm), ZeroExtended(rs))

(* C35: a non-accumulating long multiply writes to RdHi:RdLo the full      *)
(* 64-bit product of Rm and Rs, both zero-extended in the unsigned form    *)
(* and both sign-extended in the signed form.                              *)
C35_LongMultiplyProduct ==
    (/\ obs.op = "execute_arm_state"
     /\ obs.inst.op = "MULL_MLAL"
     /\ ~is_accumulating(obs.inst)) =>
        /\ ret = Ok
        /\ Pair64(cpu.gpr[Rn(obs.inst)], cpu.gpr[Rd(obs.inst)]) = LongProduct

(* C36: an accumulating long multiply writes to RdHi:RdLo the 64-bit       *)
(* product plus the previous RdHi * 2^32 + RdLo, RdLo taken as an unsigned *)
(* 32-bit low half.                                                        *)
C36_LongMultiplyAccumulate ==
    (/\ obs.op = "execute_arm_state"
     /\ obs.inst.op = "MULL_MLAL"
     /\ is_accumulating(obs.inst)) =>
        /\ ret = Ok
        /\ Pair64(cpu.gpr[Rn(obs.inst)], cpu.gpr[Rd(obs.inst)])
              = u64_wrapping_add(LongProduct,
                                 Pair64(obs.pre.gpr[Rn(obs.inst)], obs.pre.gpr[Rd(obs.inst)]))

----------------------------------------------------------------------------
(* PSR transfers from User mode: the CPU enters User mode by an MSR, may   *)
(* be interrupted and return, and executes MRS and both forms of MSR on    *)
(* CPSR and SPSR.  R0 = 0x10 (User, I and F clear), R1 = 0xF00000DF (all   *)
(* flags, I, F, System).                                                   *)

MaxUserOps == 4

(* MRS Rd, CPSR   and   MRS Rd, SPSR (always) *)
MRS_cpsr(rd) == Mk32(\hE10F, rd * 4096)

MRS_spsr(rd) == Mk32(\hE14F, rd * 4096)

(* MSR CPSR_flg, #0xF0000000   and   MSR SPSR_flg, #0xF0000000 (always) *)
MSR_cpsr_flg_imm == Mk32(\hE328, \hF20F)

MSR_spsr_flg_imm == Mk32(\hE368, \hF20F)

UserWords == { MSR_cpsr(0), MSR_cpsr(1), MSR_spsr(1), MSR_cpsr_flg(1), MSR_spsr_flg(1),
               MSR_cpsr_flg_imm, MSR_spsr_flg_imm, MRS_cpsr(4), MRS_spsr(4), MOVS_PC_LR }

InitUser ==
    /\ cpu = [new(BusWith(<< >>)) EXCEPT
                 !.gpr = [i \in 0..15 |-> CASE i = 0 -> 16
                                            [] i = 1 -> Mk32(\hF000, \h00DF)
                                            [] OTHER -> 0]]
    /\ ret = Ok
    /\ obs = ObsInit(cpu)
    /\ nops = 0
    /\ fin = [fn |-> "none"]
    /\ fout = 0
    /\ overflow_checks \in BOOLEAN

NextUser ==
    /\ nops < MaxUserOps
    /\ \/ \E w \in UserWords : ExecuteArmState(w)
       \/ RaiseException("FastInterrupt")

SpecUser == InitUser /\ [][NextUser]_vars

(* what C37 asks of the MRS or MSR just executed *)
UserPsrTransferHolds ==
    /\ obs.inst.op \in {"MSR_Reg", "MSR_Flags"} =>
          /\ cpu.cpsr % (2^28) = obs.pre.cpsr % (2^28)
          /\ cpu.mode = obs.pre.mode
    /\ is_accessing_spsr(obs.inst) =>
          /\ ret = PrivilegedUserCode
          /\ cpu = obs.pre

(* C37: in User mode an MSR of either form never changes a CPSR bit        *)
(* outside 31..28, and an MSR or MRS that names SPSR returns               *)
(* PrivilegedUserCode without changing any register or PSR.                *)
C37_UserModePsrTransfers ==
    (/\ obs.op = "execute_arm_state"
     /\ obs.inst.op \in {"MRS", "MSR_Reg", "MSR_Flags"}
     /\ Bits(obs.pre.cpsr, 0, 5) = as_bits("User")) => UserPsrTransferHolds

----------------------------------------------------------------------------
(* Words behind a taken branch: BIOS programs in which the word after a B, *)
(* BL or BX fails check_is_valid, or the branch sits at the end of the     *)
(* BIOS so that the fetch two words on is unmapped, next to the same       *)
(* programs with a harmless word there.                                    *)

MaxSkipOps == 8

(* MSR CPSR, R15: rejected by check_is_valid *)
INVALID_R15 == MSR_cpsr(15)

(* the last but one word of the BIOS *)
BiosTail == BIOS_ROM_LEN - 8

(* prog from offset 0 on and the word w at offset `at` *)
PlacedStore(prog, at, w) ==
    LET base == ProgramStore(prog)
    IN  [j \in (DOMAIN base) \cup { at + k : k \in { i \in 0..3 : ByteOf(w, i) # 0 } } |->
            IF j \in DOMAIN base THEN base[j] ELSE ByteOf(w, j - at)]

SkipPrograms ==
    { << B_fwd(1), INVALID_R15, MOV_imm(1, 1), MOV_imm(2, 2), MOV_imm(3, 3) >>,
      << BL_fwd(1), INVALID_R15, MOV_imm(1, 1), MOV_imm(2, 2), MOV_imm(3, 3) >>,
      << MOV_imm(0, 16), BX_reg(0), INVALID_R15, MOV_imm(2, 2), MOV_imm(3, 3) >>,
      << B_fwd(1), MOV_imm(4, 4), MOV_imm(1, 1), MOV_imm(2, 2), MOV_imm(3, 3) >>,
      << B_fwd(1), MOV_imm(4, 4), INVALID_R15, MOV_imm(2, 2), MOV_imm(3, 3) >>,
      << MOV_imm(0, 16), BX_reg(0), MOV_imm(4, 4), INVALID_R15, MOV_imm(3, 3) >>,
      << B_fwd((BiosTail - 8) \div 4) >> }

InitSkip ==
    /\ \E prog \in SkipPrograms :
          cpu = new([bios_rom |-> PlacedStore(prog, BiosTail, B_back(4)),
                     ioregs |-> EmptyStore, sram |-> EmptyStore])
    /\ ret = Ok
    /\ obs = ObsInit(cpu)
    /\ nops = 0
    /\ fin = [fn |-> "none"]
    /\ fout = 0
    /\ overflow_checks \in BOOLEAN

NextSkip ==
    /\ nops < MaxSkipOps
    /\ PipelineStep

SpecSkip == InitSkip /\ [][NextSkip]_vars

(* C38: a word that is only fetched or decoded never makes step() fail:    *)
(* when the instruction in the execute stage is a taken branch, the step   *)
(* performs the branch (PC at the target, pipeline flushed) and returns    *)
(* Ok, whatever the word in the decode stage and the fetch address are.    *)
C38_SkippedWordsRaiseNoError ==
    LET pre == obs.pre
        inst == pre.decoded_arm
        rm == pre.gpr[Rm(inst)]
        target == IF inst.op = "BX" THEN rm - (rm % 2)
                  ELSE wrapping_add(pre.gpr[PC], branch_offset(inst))
    IN  (/\ obs.op = "pipeline_step"
         /\ pre.state = "ARM"
         /\ pre.delay_cycles = 0
         /\ inst.op \in {"B_BL", "BX"}
         /\ check(condition(inst), pre.cpsr) = [r |-> Ok, v |-> TRUE]) =>
            /\ ret = Ok
            /\ cpu.gpr[PC] = target
            /\ cpu.decoded_arm = nop
            /\ cpu.fetched_arm = NOP_RAW

----------------------------------------------------------------------------
(* Accepted words run through the pipeline: BIOS programs whose first word *)
(* is a halfword transfer or a data-processing instruction, among them the *)
(* encodings with transfer type 00 and the test opcodes without S.         *)

MaxAcceptOps == 4

AcceptWords ==
    { Mk32(\hE1D0, \h10B0),   (* LDRH  R1, [R0]                 *)
      Mk32(\hE1D0, \h10D0),   (* LDRSB R1, [R0]                 *)
      Mk32(\hE1D0, \h10F0),   (* LDRSH R1, [R0]                 *)
      Mk32(\hE190, \h10B2),   (* LDRH  R1, [R0, R2]             *)
      Mk32(\hE190, \h10F2),   (* LDRSH R1, [R0, R2]             *)
      Mk32(\hE1D0, \h1090),   (* immediate offset, type 00, load   *)
      Mk32(\hE1C0, \h1090),   (* immediate offset, type 00, store  *)
      Mk32(\hE190, \h1092),   (* register offset, type 00, load    *)
      Mk32(\hE180, \h1092),   (* register offset, type 00, store   *)
      Mk32(\hE110, \h0001),   (* TST R0, R1                     *)
      Mk32(\hE130, \h0001),   (* TEQ R0, R1                     *)
      Mk32(\hE150, \h0001),   (* CMP R0, R1                     *)
      Mk32(\hE170, \h0001),   (* CMN R0, R1                     *)
      Mk32(\hE100, \h0001),   (* opcode TST, S clear            *)
      Mk32(\hE120, \h0001),   (* opcode TEQ, S clear            *)
      Mk32(\hE140, \h0001),   (* opcode CMP, S clear            *)
      Mk32(\hE160, \h0001),   (* opcode CMN, S clear            *)
      Mk32(\hE330, \h0001),   (* TEQ R0, #1                     *)
      Mk32(\hE320, \h0001),   (* opcode TEQ, immediate, S clear *)
      MOV_imm(1, 1) }

AcceptPrograms == { << w, MOV_imm(2, 2), MOV_imm(3, 3) >> : w \in AcceptWords }

InitAccept == InitCpu(AcceptPrograms)

NextAccept ==
    /\ nops < MaxAcceptOps
    /\ PipelineStep

SpecAccept == InitAccept /\ [][NextAccept]_vars

(* C39: every word that decode and check_is_valid accept is executed       *)
(* without aborting: no word classified as LDRH/STRH has transfer type     *)
(* bits 6..5 = 00 and no DataProcessing word with opcode TST, TEQ, CMP or  *)
(* CMN has the S bit clear.                                                *)
C39_AcceptedWordsExecute ==
    (obs.op = "pipeline_step" /\ obs.exec_from # {}) =>
        /\ ret # Panic
        /\ obs.inst.op \in {"LDRH_STRH_Reg", "LDRH_STRH_Imm"} => ldrh_strh_op(obs.inst) # 0
        /\ (obs.inst.op = "DataProcessing" /\ is_test(dpop(obs.inst))) =>
              is_setting_flags(obs.inst)

----------------------------------------------------------------------------
(* Bus accesses at both ends of the I/O-register region.                   *)

MaxIoOps == 1

IoAddrs == { IO_REGISTERS_FIRST, IO_REGISTERS_FIRST + 1, IO_REGISTERS_FIRST + 2,
             IO_REGISTERS_FIRST + 3, IO_REGISTERS_LAST - 6, IO_REGISTERS_LAST - 3,
             IO_REGISTERS_LAST - 2, IO_REGISTERS_LAST - 1, IO_REGISTERS_LAST,
             IO_REGISTERS_LAST + 1 }

InitIo == InitBus

NextIo ==
    /\ nops < MaxIoOps
    /\ \/ \E fn \in {"load_word", "load_halfword", "load_byte"} :
             \E addr \in IoAddrs : BusLoad(fn, addr)
       \/ \E fn \in {"store_word", "store_halfword", "store_byte"} :
             \E addr \in IoAddrs : \E data \in BusData : BusStore(fn, addr, data)

SpecIo == InitIo /\ [][NextIo]_vars

(* C40: every byte, halfword and word access at an address the classifier  *)
(* maps to the I/O registers stays within the backing array: the offset    *)
(* rounded down to the access width, plus the width, is at most the array  *)
(* length, and the access does not abort.                                  *)
C40_IoAccessWithinArray ==
    LET pa == from_u32(fin.addr)
        width == CASE fin.fn \in {"load_word", "store_word"} -> 4
                   [] fin.fn \in {"load_halfword", "store_halfword"} -> 2
                   [] OTHER -> 1
        o == pa.p - (pa.p % width)
    IN  ( /\ fin.fn \in {"load_word", "load_halfword", "load_byte",
                         "store_word", "store_halfword", "store_byte"}
          /\ pa.tag = "RegistersIO" ) =>
            /\ o + width <= IO_REGISTERS_LEN
            /\ ret # Panic

====
